---- MODULE Spec2Model ----
(***************************************************************************)
(* Model of Jelly_JAV (src/app.py, src/config.py): the feed poller         *)
(* fetch_rss with its retry/backoff and domain rotation, the rss_items     *)
(* store, and the two in-memory job trackers rss_update_state and          *)
(* javdb_task_state with the threads that read and write them.             *)
(*                                                                         *)
(* Threads are numbered in the order they are started and are never        *)
(* reused.  A timestamp (datetime.now()) is abstracted to the number of    *)
(* the thread that read the clock; 0 stands for None.                      *)
(***************************************************************************)
EXTENDS Integers, Sequences, FiniteSets, TLC

\* ------------------------------------------------------------------ bounds
MaxThreads == 2        \* threads per run of the job-tracker specification
MaxPolls == 2          \* requests per run of the feed-store specifications
MaxPollFaults == 12    \* failing responses one fetch_rss call may be given (SpecPoll)
MaxJobFaults == 1      \* failing responses per run of the job-tracker specification
MaxEntries == 2        \* <item> elements of one feed document
MaxSingles == 1        \* single-title rating fetches per run
MaxStarts == 3         \* start requests per run
MaxWatches == 1        \* changes of a watched flag per run
MaxSyncs == 2          \* catalog syncs per run
MaxRuns == 1           \* batch runs per run of the liveness specification
MaxStoreFaults == 1    \* failing reads of the store per run
MaxReads == 2          \* status reads per run
MaxCalls == 2          \* calls of calculate_movie_score per run that compares calls
MaxScoreCalls == 1     \* calls of calculate_movie_score per run over the full input sets
MaxTitleLen == 4       \* characters of a title given to extract_code
MaxRows == 3           \* rows of a ranking source

\* ------------------------------------------------------- program constants
RSS_MAX_RETRIES == 3
RSS_RETRY_BASE_DELAY == 5
STATUS_WINDOW == 50
MAX_RETRIES == 3
JAVBUS_DOMAINS == <<"busjav.cyou", "cdnbus.cyou", "javbus.com">>

Max(S) == CHOOSE m \in S : \A x \in S : x <= m
Tids == 1..Max({MaxThreads, MaxPolls, MaxSyncs, MaxRuns})

\* ------------------------------------------------------------ extract_code
Upper == {"A", "B"}
\* \d of a str pattern: the ASCII digits and every other Unicode decimal digit,
\* here U+FF11 (fullwidth digit one)
DecDigits == <<"0", "1", "2", "3", "4", "5", "6", "7", "8", "9">>
AsciiDigit == { DecDigits[i] : i \in 1..Len(DecDigits) }
UnicodeDigit == {"U+FF11"}
Digit == AsciiDigit \cup UnicodeDigit
NoCode == <<>>

RECURSIVE RunLen(_, _, _)
RunLen(s, i, cls) ==
    IF i <= Len(s) /\ s[i] \in cls THEN 1 + RunLen(s, i + 1, cls) ELSE 0

\* re.match(r"^([A-Z]+-\d+)", title): greedy letters, a dash, greedy digits
extract_code(title) ==
    LET u == RunLen(title, 1, Upper)
        d == RunLen(title, u + 2, Digit)
    IN  IF u >= 1 /\ u + 1 <= Len(title) /\ title[u + 1] = "-" /\ d >= 1
        THEN SubSeq(title, 1, u + 1 + d)
        ELSE NoCode

\* titles a feed entry can carry
TitlePool ==
    { <<"A", "-", "1">>,
      <<"A", "-", "1", " ", "x">>,
      <<"B", "-", "2">>,
      <<"x", "A", "-", "1">> }

RECURSIVE SeqsUpTo(_, _)
SeqsUpTo(S, n) ==
    IF n = 0 THEN { <<>> }
    ELSE LET shorter == SeqsUpTo(S, n - 1)
         IN  shorter \cup { Append(s, x) : s \in { q \in shorter : Len(q) = n - 1 }, x \in S }

\* ------------------------------------------------------------- the network
Statuses == {200, 404, 429, 503}
retryable_errors == {429, 502, 503, 504}

GoodDocs == { [ok |-> TRUE, items |-> s] : s \in SeqsUpTo(TitlePool, MaxEntries) }
BadDoc == [ok |-> FALSE, items |-> <<>>]
NoDoc == [ok |-> TRUE, items |-> <<>>]

\* what requests.get(rss_url, timeout=30) can produce
Responses ==
    { [kind |-> "http", status |-> 200, doc |-> d] : d \in GoodDocs \cup {BadDoc} }
    \cup { [kind |-> "http", status |-> s, doc |-> NoDoc] : s \in Statuses \ {200} }
    \cup { [kind |-> "timeout", status |-> 0, doc |-> NoDoc],
           [kind |-> "error", status |-> 0, doc |-> NoDoc] }

IsFault(resp) == ~(resp.kind = "http" /\ resp.status = 200 /\ resp.doc.ok)

\* ------------------------------------------------------------------- state
ActorIds == {1, 2}
ActorName(a) == IF a = 1 THEN "n1" ELSE "n2"

VARIABLES
    actors,            \* table actors: id -> [present, javbus_id, last_updated]
    rss_items,         \* table rss_items: set of rows
    rss_seq,           \* last id given to a row of rss_items (AUTOINCREMENT)
    movies,            \* table movies: set of rows [code, actors]
    rss_update_state,  \* job tracker of the feed refresh
    javdb_task_state,  \* job tracker of the rating backfill
    pc,                \* per thread: where it is
    task,              \* per thread: what it runs
    fr,                \* per thread: the frame of fetch_rss
    ret,               \* per thread: the value fetch_rss returned
    reqs,              \* per thread: the last two requests of the current pollOne call
    hist,              \* per thread: what the current pollOne call has seen so far
    bl,                \* per thread: locals of a batch worker
    nthreads,          \* threads started so far
    reply,             \* the last answer of a start request or status read
    env,               \* what the environment may still do
    movies_seq,        \* last id given to a row of movies (AUTOINCREMENT)
    sj,                \* per thread: locals and open transaction of sync_jellyfin
    caller,            \* per thread: "request" (a request handler) or "thread" (a worker)
    calls,             \* the function calls made so far, with their results
    csv_files          \* the ranking sources on disk: label -> rows

vars == << actors, rss_items, rss_seq, movies, rss_update_state, javdb_task_state,
           pc, task, fr, ret, reqs, hist, bl, nthreads, reply, env,
           movies_seq, sj, caller, calls, csv_files >>

NoFrame == [actor_id |-> 0, retry_count |-> 0, domain_index |-> 0]
NoRet == [success |-> FALSE, items_added |-> -1, error |-> "", retry_count |-> -1]
NoLocals == [items |-> <<>>, idx |-> 0, total |-> 0, success_count |-> 0,
             fail_count |-> 0, mine |-> <<>>, delays |-> 0]
\* retries: the retries a batch's poll has made
NoHist == [n |-> 0, retries |-> 0, only429 |-> TRUE, onlyTimeout |-> TRUE, ignored |-> {}]
NoReply == [op |-> "none", started |-> FALSE, is_running |-> FALSE]
NoSummary == [present |-> FALSE, total |-> 0, success |-> 0, fail |-> 0]
IdleJob == [is_running |-> FALSE, is_complete |-> FALSE, results |-> <<>>,
            start_time |-> 0, end_time |-> 0, summary |-> NoSummary]

\* CSV_FILES: the labels of the ranking sources
Labels == {"JavDB TOP250", "JavDB 2025 TOP250", "JavDB 2024 TOP250", "JavDB 2023 TOP250",
           "JavLibray TOP500"}
\* a ranking source on disk: whether open() succeeds, and its rows as
\* csv.DictReader yields them
CsvFile(rows) == [opens |-> TRUE, rows |-> rows]
MissingFile == [opens |-> FALSE, rows |-> <<>>]
NoFiles == [l \in Labels |-> MissingFile]

\* a field csv.DictReader fills with None: the row is shorter than the header
NoField == <<"None">>

\* str.isdigit() on the strings of the model: not empty, digits only
isdigit(number) ==
    /\ Len(number) > 0
    /\ \A i \in 1..Len(number) : number[i] \in AsciiDigit

DigitVal(c) == (CHOOSE i \in 1..Len(DecDigits) : DecDigits[i] = c) - 1

\* int(number) of a digit string
RECURSIVE int(_)
int(number) ==
    IF number = <<>> THEN 0
    ELSE 10 * int(SubSeq(number, 1, Len(number) - 1)) + DigitVal(number[Len(number)])

\* int(number) if number.isdigit() else 0
rank_of(number) == IF isdigit(number) THEN int(number) ELSE 0

\* the row makes the loop raise: number is None and None has no isdigit
row_raises(row) ==
    /\ row.name # NoField
    /\ extract_code(row.name) # NoCode
    /\ row.number = NoField

Min(a, b) == IF a <= b THEN a ELSE b

\* codes[label][code] = rank
put(mapping, code, rank) ==
    [c \in DOMAIN mapping \cup {code} |-> IF c = code THEN rank ELSE mapping[c]]

\* one row of the loop of load_csv_codes, lines 145-154
load_row(mapping, row) ==
    LET code == IF row.name = NoField THEN NoCode ELSE extract_code(row.name)
    IN  IF code = NoCode THEN mapping
        ELSE IF code \notin DOMAIN mapping THEN put(mapping, code, rank_of(row.number))
        ELSE put(mapping, code, Min(mapping[code], rank_of(row.number)))

\* the rows of one file from row i on; an exception ends the loop and keeps
\* what the mapping holds by then
RECURSIVE load_rows(_, _, _)
load_rows(rows, i, mapping) ==
    IF i > Len(rows) THEN mapping
    ELSE IF row_raises(rows[i]) THEN mapping
    ELSE load_rows(rows, i + 1, load_row(mapping, rows[i]))

EmptyMapping == [c \in {} |-> 0]

\* load_csv_codes, lines 136-157
load_csv_codes(files) ==
    [l \in Labels |->
        IF files[l].opens THEN load_rows(files[l].rows, 1, EmptyMapping)
        ELSE EmptyMapping]

\* ---------------------------------------------------- calculate_movie_score
\* a.strip() on the performer tokens of the model
strip(a) == CASE a = " " -> ""
              [] a = " n1" -> "n1"
              [] OTHER -> a

\* [a.strip() for a in actors_str.split(",") if a.strip()]; actors_str is kept
\* as the sequence of its comma-separated parts
RECURSIVE actors_list(_)
actors_list(actors_str) ==
    IF actors_str = <<>> THEN <<>>
    ELSE LET a == strip(Head(actors_str))
         IN  IF a = "" THEN actors_list(Tail(actors_str))
             ELSE <<a>> \o actors_list(Tail(actors_str))

\* SELECT javdb_score FROM movies WHERE code = ?  (0 stands for no row or NULL)
stored_javdb_score(code) ==
    IF \E m \in movies : m.code = code
    THEN (CHOOSE m \in movies : m.code = code).javdb_score
    ELSE 0

\* the rating the tiers are applied to, the argument alone
effective_rating_argument_only(code, javdb_score) == javdb_score

\* the rating the tiers are applied to, with the store first even when the
\* caller passed a rating
effective_rating_store_first(code, javdb_score) ==
    IF stored_javdb_score(code) # 0 THEN stored_javdb_score(code) ELSE javdb_score

\* lines 245-251: the rating passed in, or the stored one when None is passed
effective_rating(code, javdb_score) ==
    IF javdb_score = 0 THEN stored_javdb_score(code) ELSE javdb_score

\* tiers with a lowest step of -35
rating_adjustment_steep(rating) ==
    IF rating = 0 THEN 0
    ELSE IF rating >= 45 THEN 20
    ELSE IF rating >= 42 THEN 10
    ELSE IF rating >= 39 THEN 0
    ELSE IF rating >= 35 THEN -15
    ELSE -35

\* lines 254-264, ratings in tenths
rating_adjustment(rating) ==
    IF rating = 0 THEN 0
    ELSE IF rating >= 45 THEN 20
    ELSE IF rating >= 42 THEN 10
    ELSE IF rating >= 39 THEN 0
    ELSE IF rating >= 35 THEN -15
    ELSE -25

\* lines 269-276
list_adjustment(csv_codes, code) ==
    LET in_javdb == code \in DOMAIN csv_codes["JavDB TOP250"]
        in_javlib == code \in DOMAIN csv_codes["JavLibray TOP500"]
    IN  IF in_javdb /\ in_javlib THEN 30
        ELSE IF in_javdb \/ in_javlib THEN 20
        ELSE 0

AnnualLabels == <<"JavDB 2025 TOP250", "JavDB 2024 TOP250", "JavDB 2023 TOP250">>

\* every annual list the code is on adds 10
RECURSIVE annual_adjustment_stacking(_, _, _)
annual_adjustment_stacking(csv_codes, code, i) ==
    IF i > Len(AnnualLabels) THEN 0
    ELSE (IF code \in DOMAIN csv_codes[AnnualLabels[i]] THEN 10 ELSE 0)
         + annual_adjustment_stacking(csv_codes, code, i + 1)

\* only the list at position i is looked at
annual_adjustment_first_only(csv_codes, code, i) ==
    IF i > Len(AnnualLabels) THEN 0
    ELSE IF code \in DOMAIN csv_codes[AnnualLabels[i]] THEN 10
    ELSE 0

\* lines 279-282: the loop over the annual lists from label i on, with its break
RECURSIVE annual_adjustment(_, _, _)
annual_adjustment(csv_codes, code, i) ==
    IF i > Len(AnnualLabels) THEN 0
    ELSE IF code \in DOMAIN csv_codes[AnnualLabels[i]] THEN 10
    ELSE annual_adjustment(csv_codes, code, i + 1)

\* lines 285-288
multi_adjustment(actors_str) == IF Len(actors_list(actors_str)) >= 2 THEN 5 ELSE 0

\* SELECT javbus_id FROM actors WHERE name = ? AND javbus_id IS NOT NULL
\* AND javbus_id != '' returns a row
has_javbus_id(name) ==
    \E a \in ActorIds :
        actors[a].present /\ ActorName(a) = name /\ actors[a].javbus_id # 0

\* lines 291-303: the loop over the performers from position i on, with its break
RECURSIVE feed_adjustment(_, _)
feed_adjustment(names, i) ==
    IF i > Len(names) THEN 0
    ELSE IF has_javbus_id(names[i]) THEN 15
    ELSE feed_adjustment(names, i + 1)

\* calculate_movie_score, lines 235-305
calculate_movie_score(code, actors_str, javdb_score) ==
    LET csv_codes == load_csv_codes(csv_files)
    IN  50 + rating_adjustment(effective_rating(code, javdb_score))
           + list_adjustment(csv_codes, code)
           + annual_adjustment(csv_codes, code, 1)
           + multi_adjustment(actors_str)
           + feed_adjustment(actors_list(actors_str), 1)

\* the credited performers that have a feed identifier in the store
linked_names(actors_str) ==
    LET names == actors_list(actors_str)
    IN  { names[i] : i \in { k \in 1..Len(names) : has_javbus_id(names[k]) } }

\* one call of calculate_movie_score, kept with what it was given and what the
\* store held
score_call(code, actors_str, javdb_score) ==
    /\ env.calls > 0
    /\ env' = [env EXCEPT !.calls = @ - 1]
    /\ calls' = Append(calls,
           [code |-> code, actors_str |-> actors_str, javdb_score |-> javdb_score,
            snapshot |-> csv_files, linked |-> linked_names(actors_str),
            stored |-> stored_javdb_score(code),
            result |-> calculate_movie_score(code, actors_str, javdb_score)])
    /\ UNCHANGED << actors, rss_items, rss_seq, movies, rss_update_state, javdb_task_state,
                    pc, task, fr, ret, reqs, hist, bl, nthreads, reply >>
    /\ UNCHANGED << movies_seq, sj, csv_files, caller >>

\* one call of extract_code, kept with its argument
extract_code_call(title) ==
    /\ calls = <<>>
    /\ calls' = << [op |-> "extract_code", title |-> title, result |-> extract_code(title)] >>
    /\ UNCHANGED << actors, rss_items, rss_seq, movies, rss_update_state, javdb_task_state,
                    pc, task, fr, ret, reqs, hist, bl, nthreads, reply, env >>
    /\ UNCHANGED << movies_seq, sj, csv_files, caller >>

\* one call of load_csv_codes on the files on disk
load_csv_codes_call ==
    /\ calls' = << [op |-> "load_csv_codes", files |-> csv_files,
                    result |-> load_csv_codes(csv_files)] >>
    /\ UNCHANGED << actors, rss_items, rss_seq, movies, rss_update_state, javdb_task_state,
                    pc, task, fr, ret, reqs, hist, bl, nthreads, reply, env >>
    /\ UNCHANGED << movies_seq, sj, csv_files, caller >>

\* api_rss_actor_update: PUT /api/rss/actors/<actor_id>, lines 1052-1067
api_rss_actor_update(actor_id, javbus_id) ==
    /\ env.watches > 0
    /\ env' = [env EXCEPT !.watches = @ - 1]
    /\ actors' = [actors EXCEPT ![actor_id] =
           IF @.present
           THEN [@ EXCEPT !.javbus_id = javbus_id,
                          !.last_updated = IF javbus_id # 0 THEN nthreads ELSE 0]
           ELSE @]
    /\ UNCHANGED << rss_items, rss_seq, movies, rss_update_state, javdb_task_state,
                    pc, task, fr, ret, reqs, hist, bl, nthreads, reply >>
    /\ UNCHANGED << movies_seq, sj, calls, csv_files, caller >>

\* api_rss_actor_delete, lines 1071-1081: the performer's rss_items rows and the
\* actors row are deleted in one transaction
api_rss_actor_delete(actor_id) ==
    /\ actors[actor_id].present
    /\ rss_items' = { r \in rss_items : r.actor_id # actor_id }
    /\ actors' = [actors EXCEPT ![actor_id] =
           [present |-> FALSE, javbus_id |-> 0, last_updated |-> 0]]
    /\ UNCHANGED << rss_seq, movies, rss_update_state, javdb_task_state,
                    pc, task, fr, ret, reqs, hist, bl, nthreads, reply, env >>
    /\ UNCHANGED << movies_seq, sj, calls, csv_files, caller >>

\* sync_jellyfin has not returned yet
NoResult == -2
NoSync == [items |-> <<>>, idx |-> 0, count |-> 0, result |-> NoResult,
           open |-> FALSE, rows |-> {}, seq |-> 0]

\* the largest id of a set of rows
MaxId(rows) ==
    IF rows = {} THEN 0 ELSE CHOOSE i \in { r.id : r \in rows } : \A r \in rows : r.id <= i

\* ------------------------------------------------------------ the database
\* the codes of the catalog, whoever performs in them
existing_codes_any_performer(name) == { m.code : m \in movies }

\* rows of movies whose actors column names the performer (lines 383-390)
existing_codes(name) ==
    { m.code : m \in { r \in movies : \E i \in 1..Len(r.actors) : r.actors[i] = name } }

\* an INSERT with no UNIQUE constraint to stop it
insert_always(rows, row) == rows \cup {row}

\* INSERT OR REPLACE: the stored row gives way to the new one
insert_or_replace(rows, row) ==
    { r \in rows : ~(r.actor_id = row.actor_id /\ r.code = row.code) } \cup {row}

\* INSERT OR IGNORE under UNIQUE(actor_id, code)
insert_or_ignore(rows, row) ==
    IF \E r \in rows : r.actor_id = row.actor_id /\ r.code = row.code
    THEN rows
    ELSE rows \cup {row}

\* the loop over root.findall(".//item"); acc = [rows, seq, added, ignored], where
\* ignored collects the stored rows whose (actor_id, code) an entry met again
RECURSIVE insert_items(_, _, _)
insert_items(items, acc, ctx) ==
    IF items = <<>> THEN acc
    ELSE LET title == Head(items)
             code == extract_code(title)
             row == [id |-> acc.seq + 1, actor_id |-> ctx.actor_id, code |-> code,
                     title |-> title, is_watched |-> (code \in ctx.existing),
                     detected_at |-> ctx.now]
             ins == insert_or_ignore(acc.rows, row)
             met == { r \in acc.rows : r.actor_id = ctx.actor_id /\ r.code = code }
         IN  IF code = NoCode
             THEN insert_items(Tail(items), acc, ctx)
             ELSE insert_items(Tail(items),
                               [rows |-> ins,
                                seq |-> IF ins = acc.rows THEN acc.seq ELSE acc.seq + 1,
                                added |-> acc.added + 1,
                                ignored |-> acc.ignored \cup met],
                               ctx)

\* --------------------------------------------------------------- fetch_rss
\* a backoff that grows linearly
backoff_delay_linear(retry_count) == RSS_RETRY_BASE_DELAY * (retry_count + 1)

\* delay = RSS_RETRY_BASE_DELAY * (2 ** retry_count)
backoff_delay(retry_count) == RSS_RETRY_BASE_DELAY * (2 ^ retry_count)

\* a rotation test that is off by one: it rotates past the last domain
can_rotate_past_end(f, resp) ==
    resp.kind = "timeout" /\ f.domain_index < Len(JAVBUS_DOMAINS)

\* "timeout" in str(e).lower() and domain_index < len(JAVBUS_DOMAINS) - 1
can_rotate(f, resp) ==
    resp.kind = "timeout" /\ f.domain_index < Len(JAVBUS_DOMAINS) - 1

\* a rotation that keeps the attempt counter
rotate_frame_keep_retry(f) ==
    [actor_id |-> f.actor_id, retry_count |-> f.retry_count,
     domain_index |-> f.domain_index + 1]

\* return fetch_rss(actor_id, 0, domain_index + 1)
rotate_frame(f) ==
    [actor_id |-> f.actor_id, retry_count |-> 0, domain_index |-> f.domain_index + 1]

\* return fetch_rss(actor_id, retry_count + 1): domain_index takes its default
status_retry_frame(f) ==
    [actor_id |-> f.actor_id, retry_count |-> f.retry_count + 1, domain_index |-> 0]

\* return fetch_rss(actor_id, retry_count + 1, domain_index)
error_retry_frame(f) ==
    [actor_id |-> f.actor_id, retry_count |-> f.retry_count + 1,
     domain_index |-> f.domain_index]

\* current_domains[domain_index] if domain_index < len(current_domains) else [0]
current_domain(f) ==
    IF f.domain_index < Len(JAVBUS_DOMAINS) THEN f.domain_index ELSE 0

\* where a thread continues when fetch_rss returns to its caller
ReturnPc(t) ==
    CASE task[t] = "rss_batch" -> "bw_record"
      [] task[t] = "rss_sync" -> "sy_record"
      [] OTHER -> "done"

\* the step a response decides: [pc, fr, ret, delay, store]
fetch_rss_outcome(t, resp) ==
    LET f == fr[t]
        again(frame, delay) ==
            [pc |-> "fr_enter", fr |-> frame, ret |-> ret[t], delay |-> delay,
             store |-> FALSE]
        give(result) ==
            [pc |-> ReturnPc(t), fr |-> f, ret |-> result, delay |-> 0, store |-> FALSE]
        failure(err, rc) ==
            [success |-> FALSE, items_added |-> -1, error |-> err, retry_count |-> rc]
    IN  CASE resp.kind = "http" /\ resp.status \in retryable_errors ->
                IF f.retry_count < RSS_MAX_RETRIES
                THEN again(status_retry_frame(f), backoff_delay(f.retry_count))
                ELSE give(failure("max retries exceeded", f.retry_count))
          [] resp.kind = "http" /\ resp.status = 200 /\ resp.doc.ok ->
                [pc |-> ReturnPc(t), fr |-> f, ret |-> ret[t], delay |-> 0,
                 store |-> TRUE]
          [] resp.kind = "http" /\ resp.status = 200 /\ ~resp.doc.ok ->
                IF f.retry_count < RSS_MAX_RETRIES
                THEN again(error_retry_frame(f), backoff_delay(f.retry_count))
                ELSE give(failure("parse error", -1))
          [] OTHER ->
                IF can_rotate(f, resp)
                THEN again(rotate_frame(f), 0)
                ELSE IF f.retry_count < RSS_MAX_RETRIES
                THEN again(error_retry_frame(f), backoff_delay(f.retry_count))
                ELSE give(failure("Network error", -1))

\* an UPDATE without its WHERE clause
touch_every_actor(rows, actor_id, now) ==
    [a \in ActorIds |-> IF rows[a].present THEN [rows[a] EXCEPT !.last_updated = now]
                        ELSE rows[a]]

\* line 419: UPDATE actors SET last_updated = ? WHERE id = ?
touch_actor(rows, actor_id, now) ==
    IF rows[actor_id].present THEN [rows EXCEPT ![actor_id].last_updated = now] ELSE rows

\* the request log keeps the last two requests of the call
Remember(log, entry) ==
    IF Len(log) < 2 THEN Append(log, entry) ELSE << log[2], entry >>

\* lines 329-334: look the performer up
fetch_rss_enter(t) ==
    /\ pc[t] = "fr_enter"
    /\ LET a == fr[t].actor_id
       IN  IF a \notin ActorIds \/ ~actors[a].present \/ actors[a].javbus_id = 0
           THEN /\ pc' = [pc EXCEPT ![t] = ReturnPc(t)]
                /\ ret' = [ret EXCEPT ![t] =
                       [success |-> FALSE, items_added |-> -1,
                        error |-> "Actor not found or no javbus_id", retry_count |-> -1]]
           ELSE /\ pc' = [pc EXCEPT ![t] = "fr_get"]
                /\ ret' = ret
    /\ UNCHANGED << actors, rss_items, rss_seq, movies, rss_update_state,
                    javdb_task_state, task, fr, reqs, hist, bl, nthreads, reply, env >>
    /\ UNCHANGED << movies_seq, sj, calls, csv_files, caller >>

\* lines 354-448: one request and what follows from its response
fetch_rss_get(t) ==
    /\ pc[t] = "fr_get"
    /\ \E resp \in Responses :
         /\ IsFault(resp) => env.faults > 0
         /\ ~IsFault(resp) => resp.doc \in env.docs
         /\ LET f == fr[t]
                o == fetch_rss_outcome(t, resp)
                done == insert_items(resp.doc.items,
                            [rows |-> rss_items, seq |-> rss_seq, added |-> 0, ignored |-> {}],
                            [actor_id |-> f.actor_id, now |-> t,
                             existing |-> existing_codes(ActorName(f.actor_id))])
            IN  /\ reqs' = [reqs EXCEPT ![t] = Remember(@,
                       [dom |-> current_domain(f), retry |-> f.retry_count,
                        kind |-> resp.kind, status |-> resp.status, delay |-> o.delay])]
                /\ hist' = [hist EXCEPT ![t] =
                       [n |-> @.n + 1,
                        retries |-> IF task[t] = "rss_batch" /\ o.pc = "fr_enter"
                                       /\ o.fr.retry_count = f.retry_count + 1
                                    THEN @.retries + 1 ELSE @.retries,
                        only429 |-> @.only429 /\ resp.kind = "http" /\ resp.status = 429,
                        onlyTimeout |-> @.onlyTimeout /\ resp.kind = "timeout",
                        ignored |-> IF o.store THEN done.ignored ELSE {}]]
                /\ pc' = [pc EXCEPT ![t] = o.pc]
                /\ fr' = [fr EXCEPT ![t] = o.fr]
                /\ env' = [env EXCEPT !.faults = IF IsFault(resp) THEN @ - 1 ELSE @]
                /\ IF o.store
                   THEN /\ rss_items' = done.rows
                        /\ rss_seq' = done.seq
                        /\ actors' = touch_actor(actors, f.actor_id, t)
                        /\ ret' = [ret EXCEPT ![t] =
                               [success |-> TRUE, items_added |-> done.added,
                                error |-> "", retry_count |-> -1]]
                   ELSE /\ ret' = [ret EXCEPT ![t] = o.ret]
                        /\ UNCHANGED << rss_items, rss_seq, actors >>
    /\ UNCHANGED << movies, rss_update_state, javdb_task_state, task, bl, nthreads, reply >>
    /\ UNCHANGED << movies_seq, sj, calls, csv_files, caller >>

\* api_rss_refresh_actor: POST /api/rss/refresh/<actor_id> runs fetch_rss(actor_id)
api_rss_refresh_actor(a) ==
    /\ nthreads < env.threads
    /\ LET t == nthreads + 1
       IN  /\ nthreads' = t
           /\ task' = [task EXCEPT ![t] = "poll_one"]
           /\ pc' = [pc EXCEPT ![t] = "fr_enter"]
           /\ fr' = [fr EXCEPT ![t] =
                  [actor_id |-> a, retry_count |-> 0, domain_index |-> 0]]
           /\ reqs' = [reqs EXCEPT ![t] = <<>>]
           /\ hist' = [hist EXCEPT ![t] = NoHist]
    /\ UNCHANGED << actors, rss_items, rss_seq, movies, rss_update_state,
                    javdb_task_state, ret, bl, reply, env >>
    /\ caller' = [caller EXCEPT ![nthreads + 1] = "request"]
    /\ UNCHANGED << movies_seq, sj, calls, csv_files >>


\* ------------------------------------------------ fetch_all_rss_background
\* the ids of a set in ascending order (the order SELECT returns the rows in)
RECURSIVE Ascending(_)
Ascending(S) ==
    IF S = {} THEN <<>>
    ELSE LET m == CHOOSE x \in S : \A y \in S : x <= y
         IN  <<m>> \o Ascending(S \ {m})

\* SELECT ... FROM actors WHERE javbus_id IS NOT NULL AND javbus_id != ''
configured_actors ==
    Ascending({ a \in ActorIds : actors[a].present /\ actors[a].javbus_id # 0 })

FirstFrame(a) == [actor_id |-> a, retry_count |-> 0, domain_index |-> 0]

\* line 455
rss_bg_set_running(t) ==
    /\ pc[t] = "bw_run"
    /\ rss_update_state' = [rss_update_state EXCEPT !.is_running = TRUE]
    /\ pc' = [pc EXCEPT ![t] = "bw_uncomplete"]
    /\ UNCHANGED << actors, rss_items, rss_seq, movies, javdb_task_state, task, fr, ret,
                    reqs, hist, bl, nthreads, reply, env >>
    /\ UNCHANGED << movies_seq, sj, calls, csv_files, caller >>

\* line 456
rss_bg_clear_complete(t) ==
    /\ pc[t] = "bw_uncomplete"
    /\ rss_update_state' = [rss_update_state EXCEPT !.is_complete = FALSE]
    /\ pc' = [pc EXCEPT ![t] = "bw_start_time"]
    /\ UNCHANGED << actors, rss_items, rss_seq, movies, javdb_task_state, task, fr, ret,
                    reqs, hist, bl, nthreads, reply, env >>
    /\ UNCHANGED << movies_seq, sj, calls, csv_files, caller >>

\* line 457
rss_bg_set_start_time(t) ==
    /\ pc[t] = "bw_start_time"
    /\ rss_update_state' = [rss_update_state EXCEPT !.start_time = t]
    /\ pc' = [pc EXCEPT ![t] = "bw_reset"]
    /\ UNCHANGED << actors, rss_items, rss_seq, movies, javdb_task_state, task, fr, ret,
                    reqs, hist, bl, nthreads, reply, env >>
    /\ UNCHANGED << movies_seq, sj, calls, csv_files, caller >>

\* line 458
rss_bg_reset_results(t) ==
    /\ pc[t] = "bw_reset"
    /\ rss_update_state' = [rss_update_state EXCEPT !.results = <<>>]
    /\ pc' = [pc EXCEPT ![t] = "bw_select"]
    /\ UNCHANGED << actors, rss_items, rss_seq, movies, javdb_task_state, task, fr, ret,
                    reqs, hist, bl, nthreads, reply, env >>
    /\ UNCHANGED << movies_seq, sj, calls, csv_files, caller >>

\* a sleep before every poll, the first included
request_delay_always(idx) == 1

\* lines 470-471: if idx > 0: time.sleep(RSS_REQUEST_DELAY), counted in sleeps
request_delay(idx) == IF idx > 0 THEN 1 ELSE 0

\* lines 460-473: select the performers and start on the first one
rss_bg_select(t) ==
    /\ pc[t] = "bw_select"
    /\ LET found == configured_actors
       IN  /\ bl' = [bl EXCEPT ![t] =
                  [NoLocals EXCEPT !.items = found, !.total = Len(found),
                                   !.delays = IF found = <<>> THEN 0
                                              ELSE request_delay(0)]]
           /\ IF found = <<>>
              THEN /\ pc' = [pc EXCEPT ![t] = "bw_fin_running"]
                   /\ UNCHANGED << fr, reqs, hist >>
              ELSE /\ pc' = [pc EXCEPT ![t] = "fr_enter"]
                   /\ fr' = [fr EXCEPT ![t] = FirstFrame(found[1])]
                   /\ reqs' = [reqs EXCEPT ![t] = <<>>]
                   /\ hist' = [hist EXCEPT ![t] = NoHist]
    /\ UNCHANGED << actors, rss_items, rss_seq, movies, rss_update_state, javdb_task_state,
                    task, ret, nthreads, reply, env >>
    /\ UNCHANGED << movies_seq, sj, calls, csv_files, caller >>

\* result.get(key, default) on the value fetch_rss returned
rss_outcome(a, result) ==
    [actor_id |-> a,
     success |-> result.success,
     items_added |-> IF result.items_added < 0 THEN 0 ELSE result.items_added,
     error |-> result.error,
     retry_count |-> IF result.retry_count < 0 THEN 0 ELSE result.retry_count]

\* lines 474-488, then 468-473 for the next performer
rss_bg_record(t) ==
    /\ pc[t] = "bw_record"
    /\ LET b == bl[t]
           i == b.idx + 1
           entry == rss_outcome(b.items[i], ret[t])
           more == i < Len(b.items)
       IN  /\ rss_update_state' =
                  [rss_update_state EXCEPT !.results = Append(@, entry)]
           /\ bl' = [bl EXCEPT ![t] =
                  [b EXCEPT !.idx = i,
                            !.success_count = IF ret[t].success THEN @ + 1 ELSE @,
                            !.fail_count = IF ret[t].success THEN @ ELSE @ + 1,
                            !.mine = Append(@, entry),
                            !.delays = IF more THEN @ + request_delay(i) ELSE @]]
           /\ IF more
              THEN /\ pc' = [pc EXCEPT ![t] = "fr_enter"]
                   /\ fr' = [fr EXCEPT ![t] = FirstFrame(b.items[i + 1])]
                   /\ reqs' = [reqs EXCEPT ![t] = <<>>]
                   /\ hist' = [hist EXCEPT ![t] = NoHist]
              ELSE /\ pc' = [pc EXCEPT ![t] = "bw_fin_running"]
                   /\ UNCHANGED << fr, reqs, hist >>
    /\ UNCHANGED << actors, rss_items, rss_seq, movies, javdb_task_state, task, ret,
                    nthreads, reply, env >>
    /\ UNCHANGED << movies_seq, sj, calls, csv_files, caller >>

\* line 490
rss_bg_clear_running(t) ==
    /\ pc[t] = "bw_fin_running"
    /\ rss_update_state' = [rss_update_state EXCEPT !.is_running = FALSE]
    /\ pc' = [pc EXCEPT ![t] = "bw_fin_complete"]
    /\ UNCHANGED << actors, rss_items, rss_seq, movies, javdb_task_state, task, fr, ret,
                    reqs, hist, bl, nthreads, reply, env >>
    /\ UNCHANGED << movies_seq, sj, calls, csv_files, caller >>

\* line 491
rss_bg_set_complete(t) ==
    /\ pc[t] = "bw_fin_complete"
    /\ rss_update_state' = [rss_update_state EXCEPT !.is_complete = TRUE]
    /\ pc' = [pc EXCEPT ![t] = "bw_fin_end"]
    /\ UNCHANGED << actors, rss_items, rss_seq, movies, javdb_task_state, task, fr, ret,
                    reqs, hist, bl, nthreads, reply, env >>
    /\ UNCHANGED << movies_seq, sj, calls, csv_files, caller >>

\* line 492
rss_bg_set_end_time(t) ==
    /\ pc[t] = "bw_fin_end"
    /\ rss_update_state' = [rss_update_state EXCEPT !.end_time = t]
    /\ pc' = [pc EXCEPT ![t] = "bw_fin_summary"]
    /\ UNCHANGED << actors, rss_items, rss_seq, movies, javdb_task_state, task, fr, ret,
                    reqs, hist, bl, nthreads, reply, env >>
    /\ UNCHANGED << movies_seq, sj, calls, csv_files, caller >>

\* lines 493-497; the worker returns and its locals end with it
rss_bg_set_summary(t) ==
    /\ pc[t] = "bw_fin_summary"
    /\ rss_update_state' = [rss_update_state EXCEPT !.summary =
           [present |-> TRUE, total |-> bl[t].total, success |-> bl[t].success_count,
            fail |-> bl[t].fail_count]]
    /\ pc' = [pc EXCEPT ![t] = "done"]
    /\ bl' = [bl EXCEPT ![t] = NoLocals]
    /\ fr' = [fr EXCEPT ![t] = NoFrame]
    /\ ret' = [ret EXCEPT ![t] = NoRet]
    /\ reqs' = [reqs EXCEPT ![t] = <<>>]
    /\ hist' = [hist EXCEPT ![t] = NoHist]
    /\ UNCHANGED << actors, rss_items, rss_seq, movies, javdb_task_state, task,
                    nthreads, reply, env >>
    /\ UNCHANGED << movies_seq, sj, calls, csv_files, caller >>

\* a start handler that does not look at is_running
api_rss_refresh_unchecked ==
    /\ env.starts > 0
    /\ env' = [env EXCEPT !.starts = @ - 1]
    /\ nthreads < env.threads
    /\ nthreads' = nthreads + 1
    /\ task' = [task EXCEPT ![nthreads + 1] = "rss_batch"]
    /\ pc' = [pc EXCEPT ![nthreads + 1] = "bw_run"]
    /\ reply' = [op |-> "api_rss_refresh", started |-> TRUE, is_running |-> FALSE]
    /\ UNCHANGED << actors, rss_items, rss_seq, movies, rss_update_state, javdb_task_state,
                    fr, ret, reqs, hist, bl >>
    /\ caller' = [caller EXCEPT ![nthreads + 1] = "thread"]
    /\ UNCHANGED << movies_seq, sj, calls, csv_files >>

\* api_rss_refresh: POST /api/rss/refresh
api_rss_refresh ==
    /\ env.starts > 0
    /\ env' = [env EXCEPT !.starts = @ - 1]
    /\ IF rss_update_state.is_running
       THEN /\ reply' = [op |-> "api_rss_refresh", started |-> FALSE, is_running |-> TRUE]
            /\ UNCHANGED << nthreads, task, pc >>
       ELSE /\ nthreads < env.threads
            /\ nthreads' = nthreads + 1
            /\ task' = [task EXCEPT ![nthreads + 1] = "rss_batch"]
            /\ pc' = [pc EXCEPT ![nthreads + 1] = "bw_run"]
            /\ reply' = [op |-> "api_rss_refresh", started |-> TRUE, is_running |-> FALSE]
    /\ UNCHANGED << actors, rss_items, rss_seq, movies, rss_update_state, javdb_task_state,
                    fr, ret, reqs, hist, bl >>
    /\ caller' = IF nthreads' = nthreads THEN caller
                  ELSE [caller EXCEPT ![nthreads + 1] = "thread"]
    /\ UNCHANGED << movies_seq, sj, calls, csv_files >>


\* ------------------------------------------- fetch_javdb_scores_background
\* what javdb_scraper.get_javdb_score(code) returns: 0 for None, else a
\* rating in tenths
ScraperResults == {0, 46}

\* SELECT id, code FROM movies WHERE javdb_score IS NULL OR javdb_score = ''
unrated_movies ==
    LET ids == Ascending({ m.id : m \in { r \in movies : r.javdb_score = 0 } })
    IN  [i \in 1..Len(ids) |-> CHOOSE m \in movies : m.id = ids[i]]

\* UPDATE movies SET javdb_score = ? WHERE id = ?
update_score_by_id(rows, movie_id, score) ==
    { IF m.id = movie_id THEN [m EXCEPT !.javdb_score = score] ELSE m : m \in rows }

\* UPDATE movies SET javdb_score = ? WHERE code = ?
update_score_by_code(rows, code, score) ==
    { IF m.code = code THEN [m EXCEPT !.javdb_score = score] ELSE m : m \in rows }

\* line 1246
javdb_bg_set_running(t) ==
    /\ pc[t] = "jw_run"
    /\ javdb_task_state' = [javdb_task_state EXCEPT !.is_running = TRUE]
    /\ pc' = [pc EXCEPT ![t] = "jw_uncomplete"]
    /\ UNCHANGED << actors, rss_items, rss_seq, movies, rss_update_state, task, fr, ret,
                    reqs, hist, bl, nthreads, reply, env >>
    /\ UNCHANGED << movies_seq, sj, calls, csv_files, caller >>

\* line 1247
javdb_bg_clear_complete(t) ==
    /\ pc[t] = "jw_uncomplete"
    /\ javdb_task_state' = [javdb_task_state EXCEPT !.is_complete = FALSE]
    /\ pc' = [pc EXCEPT ![t] = "jw_start_time"]
    /\ UNCHANGED << actors, rss_items, rss_seq, movies, rss_update_state, task, fr, ret,
                    reqs, hist, bl, nthreads, reply, env >>
    /\ UNCHANGED << movies_seq, sj, calls, csv_files, caller >>

\* line 1248
javdb_bg_set_start_time(t) ==
    /\ pc[t] = "jw_start_time"
    /\ javdb_task_state' = [javdb_task_state EXCEPT !.start_time = t]
    /\ pc' = [pc EXCEPT ![t] = "jw_reset"]
    /\ UNCHANGED << actors, rss_items, rss_seq, movies, rss_update_state, task, fr, ret,
                    reqs, hist, bl, nthreads, reply, env >>
    /\ UNCHANGED << movies_seq, sj, calls, csv_files, caller >>

\* line 1249
javdb_bg_reset_results(t) ==
    /\ pc[t] = "jw_reset"
    /\ javdb_task_state' = [javdb_task_state EXCEPT !.results = <<>>]
    /\ pc' = [pc EXCEPT ![t] = "jw_select"]
    /\ UNCHANGED << actors, rss_items, rss_seq, movies, rss_update_state, task, fr, ret,
                    reqs, hist, bl, nthreads, reply, env >>
    /\ UNCHANGED << movies_seq, sj, calls, csv_files, caller >>

\* lines 1251-1258
javdb_bg_select(t) ==
    /\ pc[t] = "jw_select"
    /\ LET found == unrated_movies
       IN  /\ bl' = [bl EXCEPT ![t] = [NoLocals EXCEPT !.items = found, !.total = Len(found)]]
           /\ pc' = [pc EXCEPT ![t] = IF found = <<>> THEN "jw_fin_running" ELSE "jw_fetch"]
    /\ UNCHANGED << actors, rss_items, rss_seq, movies, rss_update_state, javdb_task_state,
                    task, fr, ret, reqs, hist, nthreads, reply, env >>
    /\ UNCHANGED << movies_seq, sj, calls, csv_files, caller >>

\* lines 1260-1293: one title: the scraper's answer, the UPDATE, the log entry
javdb_bg_fetch(t) ==
    /\ pc[t] = "jw_fetch"
    /\ \E score \in ScraperResults :
         /\ score # 0 => \A u \in Tids \ {t} : ~sj[u].open
         /\ LET b == bl[t]
                i == b.idx + 1
                movie == b.items[i]
                entry == [task_id |-> 0, code |-> movie.code, movie_id |-> movie.id,
                          score |-> score, success |-> score # 0,
                          status |-> "",
                          error |-> IF score # 0 THEN "" ELSE "Not found or error"]
            IN  /\ movies' = IF score # 0 THEN update_score_by_id(movies, movie.id, score)
                             ELSE movies
                /\ javdb_task_state' =
                       [javdb_task_state EXCEPT !.results = Append(@, entry)]
                /\ bl' = [bl EXCEPT ![t] =
                       [b EXCEPT !.idx = i,
                                 !.success_count = IF score # 0 THEN @ + 1 ELSE @,
                                 !.fail_count = IF score # 0 THEN @ ELSE @ + 1,
                                 !.mine = Append(@, entry),
                                 !.delays = IF i < Len(b.items) THEN @ + 1 ELSE @]]
                /\ pc' = [pc EXCEPT ![t] =
                       IF i < Len(b.items) THEN "jw_fetch" ELSE "jw_fin_running"]
       /\ UNCHANGED << actors, rss_items, rss_seq, rss_update_state, task, fr, ret, reqs, hist,
                    nthreads, reply, env >>
    /\ UNCHANGED << movies_seq, sj, calls, csv_files, caller >>

\* line 1306
javdb_bg_clear_running(t) ==
    /\ pc[t] = "jw_fin_running"
    /\ javdb_task_state' = [javdb_task_state EXCEPT !.is_running = FALSE]
    /\ pc' = [pc EXCEPT ![t] = "jw_fin_complete"]
    /\ UNCHANGED << actors, rss_items, rss_seq, movies, rss_update_state, task, fr, ret,
                    reqs, hist, bl, nthreads, reply, env >>
    /\ UNCHANGED << movies_seq, sj, calls, csv_files, caller >>

\* line 1307
javdb_bg_set_complete(t) ==
    /\ pc[t] = "jw_fin_complete"
    /\ javdb_task_state' = [javdb_task_state EXCEPT !.is_complete = TRUE]
    /\ pc' = [pc EXCEPT ![t] = "jw_fin_end"]
    /\ UNCHANGED << actors, rss_items, rss_seq, movies, rss_update_state, task, fr, ret,
                    reqs, hist, bl, nthreads, reply, env >>
    /\ UNCHANGED << movies_seq, sj, calls, csv_files, caller >>

\* line 1308
javdb_bg_set_end_time(t) ==
    /\ pc[t] = "jw_fin_end"
    /\ javdb_task_state' = [javdb_task_state EXCEPT !.end_time = t]
    /\ pc' = [pc EXCEPT ![t] = "jw_fin_summary"]
    /\ UNCHANGED << actors, rss_items, rss_seq, movies, rss_update_state, task, fr, ret,
                    reqs, hist, bl, nthreads, reply, env >>
    /\ UNCHANGED << movies_seq, sj, calls, csv_files, caller >>

\* lines 1309-1313; the worker returns and its locals end with it
javdb_bg_set_summary(t) ==
    /\ pc[t] = "jw_fin_summary"
    /\ javdb_task_state' = [javdb_task_state EXCEPT !.summary =
           [present |-> TRUE, total |-> bl[t].total, success |-> bl[t].success_count,
            fail |-> bl[t].fail_count]]
    /\ pc' = [pc EXCEPT ![t] = "done"]
    /\ bl' = [bl EXCEPT ![t] = NoLocals]
    /\ UNCHANGED << actors, rss_items, rss_seq, movies, rss_update_state, task, fr, ret,
                    reqs, hist, nthreads, reply, env >>
    /\ UNCHANGED << movies_seq, sj, calls, csv_files, caller >>

\* the rating backfill run by the request itself
api_fetch_javdb_scores_inline ==
    /\ env.starts > 0
    /\ env' = [env EXCEPT !.starts = @ - 1]
    /\ IF javdb_task_state.is_running
       THEN /\ reply' = [op |-> "api_fetch_javdb_scores", started |-> FALSE,
                         is_running |-> TRUE]
            /\ UNCHANGED << nthreads, task, pc >>
       ELSE /\ nthreads < env.threads
            /\ nthreads' = nthreads + 1
            /\ task' = [task EXCEPT ![nthreads + 1] = "javdb_batch"]
            /\ pc' = [pc EXCEPT ![nthreads + 1] = "jw_run"]
            /\ reply' = [op |-> "api_fetch_javdb_scores", started |-> TRUE,
                         is_running |-> FALSE]
    /\ UNCHANGED << actors, rss_items, rss_seq, movies, rss_update_state, javdb_task_state,
                    fr, ret, reqs, hist, bl >>
    /\ caller' = IF nthreads' = nthreads THEN caller
                  ELSE [caller EXCEPT ![nthreads + 1] = "request"]
    /\ UNCHANGED << movies_seq, sj, calls, csv_files >>

\* api_fetch_javdb_scores: POST /api/fetch_javdb_scores
api_fetch_javdb_scores ==
    /\ env.starts > 0
    /\ env' = [env EXCEPT !.starts = @ - 1]
    /\ IF javdb_task_state.is_running
       THEN /\ reply' = [op |-> "api_fetch_javdb_scores", started |-> FALSE,
                         is_running |-> TRUE]
            /\ UNCHANGED << nthreads, task, pc >>
       ELSE /\ nthreads < env.threads
            /\ nthreads' = nthreads + 1
            /\ task' = [task EXCEPT ![nthreads + 1] = "javdb_batch"]
            /\ pc' = [pc EXCEPT ![nthreads + 1] = "jw_run"]
            /\ reply' = [op |-> "api_fetch_javdb_scores", started |-> TRUE,
                         is_running |-> FALSE]
    /\ UNCHANGED << actors, rss_items, rss_seq, movies, rss_update_state, javdb_task_state,
                    fr, ret, reqs, hist, bl >>
    /\ caller' = IF nthreads' = nthreads THEN caller
                  ELSE [caller EXCEPT ![nthreads + 1] = "thread"]
    /\ UNCHANGED << movies_seq, sj, calls, csv_files >>

\* ------------------------------------- fetch_single_javdb_score_background
\* the entry of task t in the list that javdb_task_state["results"] names now
set_entry(results, t, score, status) ==
    [i \in 1..Len(results) |->
        IF results[i].task_id = t
        THEN [results[i] EXCEPT !.score = score, !.status = status]
        ELSE results[i]]

\* api_test_javdb: GET /api/test_javdb/<code>
api_test_javdb(code) ==
    /\ env.singles > 0
    /\ nthreads < env.threads
    /\ env' = [env EXCEPT !.singles = @ - 1]
    /\ nthreads' = nthreads + 1
    /\ task' = [task EXCEPT ![nthreads + 1] = "javdb_single"]
    /\ pc' = [pc EXCEPT ![nthreads + 1] = "sf_append"]
    /\ bl' = [bl EXCEPT ![nthreads + 1] = [NoLocals EXCEPT !.items = <<code>>]]
    /\ UNCHANGED << actors, rss_items, rss_seq, movies, rss_update_state, javdb_task_state,
                    fr, ret, reqs, hist, reply >>
    /\ caller' = [caller EXCEPT ![nthreads + 1] = "thread"]
    /\ UNCHANGED << movies_seq, sj, calls, csv_files >>

\* lines 1357-1367
javdb_single_append(t) ==
    /\ pc[t] = "sf_append"
    /\ javdb_task_state' = [javdb_task_state EXCEPT !.results = Append(@,
           [task_id |-> t, code |-> bl[t].items[1], movie_id |-> 0, score |-> 0,
            success |-> FALSE, status |-> "running", error |-> ""])]
    /\ pc' = [pc EXCEPT ![t] = "sf_fetch"]
    /\ UNCHANGED << actors, rss_items, rss_seq, movies, rss_update_state, task, fr, ret,
                    reqs, hist, bl, nthreads, reply, env >>
    /\ UNCHANGED << movies_seq, sj, calls, csv_files, caller >>

\* lines 1370-1392
javdb_single_fetch(t) ==
    /\ pc[t] = "sf_fetch"
    /\ \E score \in ScraperResults :
         /\ movies' = IF score # 0 THEN update_score_by_code(movies, bl[t].items[1], score)
                      ELSE movies
         /\ javdb_task_state' = [javdb_task_state EXCEPT !.results =
                set_entry(@, t, score, IF score # 0 THEN "success" ELSE "not_found")]
    /\ pc' = [pc EXCEPT ![t] = "sf_summary"]
    /\ UNCHANGED << actors, rss_items, rss_seq, rss_update_state, task, fr, ret, reqs, hist,
                    bl, nthreads, reply, env >>
    /\ UNCHANGED << movies_seq, sj, calls, csv_files, caller >>

\* lines 1394-1401; the thread returns and its locals end with it
javdb_single_summary(t) ==
    /\ pc[t] = "sf_summary"
    /\ LET rs == javdb_task_state.results
           ok == { i \in 1..Len(rs) : rs[i].status = "success" }
           ko == { i \in 1..Len(rs) : rs[i].status \in {"error", "not_found"} }
       IN  javdb_task_state' = [javdb_task_state EXCEPT !.summary =
               [present |-> TRUE, total |-> Len(rs), success |-> Cardinality(ok),
                fail |-> Cardinality(ko)]]
    /\ pc' = [pc EXCEPT ![t] = "done"]
    /\ bl' = [bl EXCEPT ![t] = NoLocals]
    /\ UNCHANGED << actors, rss_items, rss_seq, movies, rss_update_state, task, fr, ret,
                    reqs, hist, nthreads, reply, env >>
    /\ UNCHANGED << movies_seq, sj, calls, csv_files, caller >>


\* ------------------------------------------------------------ fetch_all_rss
\* api_rss_refresh_sync: POST /api/rss/refresh/sync runs fetch_all_rss()
api_rss_refresh_sync ==
    /\ nthreads < env.threads
    /\ nthreads' = nthreads + 1
    /\ task' = [task EXCEPT ![nthreads + 1] = "rss_sync"]
    /\ pc' = [pc EXCEPT ![nthreads + 1] = "sy_select"]
    /\ UNCHANGED << actors, rss_items, rss_seq, movies, rss_update_state, javdb_task_state,
                    fr, ret, reqs, hist, bl, reply, env >>
    /\ caller' = [caller EXCEPT ![nthreads + 1] = "request"]
    /\ UNCHANGED << movies_seq, sj, calls, csv_files >>

\* lines 504-510
rss_sync_select(t) ==
    /\ pc[t] = "sy_select"
    /\ LET found == configured_actors
       IN  /\ bl' = [bl EXCEPT ![t] = [NoLocals EXCEPT !.items = found, !.total = Len(found)]]
           /\ IF found = <<>>
              THEN /\ pc' = [pc EXCEPT ![t] = "done"]
                   /\ UNCHANGED << fr, reqs, hist >>
              ELSE /\ pc' = [pc EXCEPT ![t] = "fr_enter"]
                   /\ fr' = [fr EXCEPT ![t] = FirstFrame(found[1])]
                   /\ reqs' = [reqs EXCEPT ![t] = <<>>]
                   /\ hist' = [hist EXCEPT ![t] = NoHist]
    /\ UNCHANGED << actors, rss_items, rss_seq, movies, rss_update_state, javdb_task_state,
                    task, ret, nthreads, reply, env >>
    /\ UNCHANGED << movies_seq, sj, calls, csv_files, caller >>

\* lines 510-517
rss_sync_record(t) ==
    /\ pc[t] = "sy_record"
    /\ LET b == bl[t]
           i == b.idx + 1
           more == i < Len(b.items)
       IN  /\ bl' = [bl EXCEPT ![t] =
                  [b EXCEPT !.idx = i, !.mine = Append(@, rss_outcome(b.items[i], ret[t]))]]
           /\ IF more
              THEN /\ pc' = [pc EXCEPT ![t] = "fr_enter"]
                   /\ fr' = [fr EXCEPT ![t] = FirstFrame(b.items[i + 1])]
                   /\ reqs' = [reqs EXCEPT ![t] = <<>>]
                   /\ hist' = [hist EXCEPT ![t] = NoHist]
              ELSE /\ pc' = [pc EXCEPT ![t] = "done"]
                   /\ UNCHANGED << fr, reqs, hist >>
    /\ UNCHANGED << actors, rss_items, rss_seq, movies, rss_update_state, javdb_task_state,
                    task, ret, nthreads, reply, env >>
    /\ UNCHANGED << movies_seq, sj, calls, csv_files, caller >>

\* ------------------------------------------------------- api_rss_item_watch
\* UPDATE rss_items SET is_watched = ? WHERE id = ?
api_rss_item_watch(item_id, is_watched) ==
    /\ env.watches > 0
    /\ env' = [env EXCEPT !.watches = @ - 1]
    /\ \E r \in rss_items : r.id = item_id /\ r.is_watched # is_watched
    /\ rss_items' = { IF r.id = item_id THEN [r EXCEPT !.is_watched = is_watched] ELSE r :
                      r \in rss_items }
    /\ UNCHANGED << actors, rss_seq, movies, rss_update_state, javdb_task_state, pc, task,
                    fr, ret, reqs, hist, bl, nthreads, reply >>
    /\ UNCHANGED << movies_seq, sj, calls, csv_files, caller >>

\* ------------------------------------------------------------ sync_jellyfin
\* a credit entry that has no "Name" key
NoName == "?"
\* an item that has no "DateCreated"
NoDate == [day |-> "", time |-> ""]

\* items the media library can return
LibraryItems ==
    [ a1 |-> [Name |-> <<"A", "-", "1">>, ProductionYear |-> "2020",
              DateCreated |-> [day |-> "d1", time |-> "t1"],
              People |-> << [Name |-> "n1", Type |-> "Actor"] >>, Id |-> "j1"],
      a2 |-> [Name |-> <<"A", "-", "1", " ", "x">>, ProductionYear |-> "2021",
              DateCreated |-> [day |-> "d2", time |-> "t2"],
              People |-> << [Name |-> "n1", Type |-> "Actor"],
                            [Name |-> NoName, Type |-> "Director"],
                            [Name |-> "n2", Type |-> "Actor"] >>, Id |-> "j2"],
      b |->  [Name |-> <<"B", "-", "2">>, ProductionYear |-> "", DateCreated |-> NoDate,
              People |-> << >>, Id |-> "j3"],
      x |->  [Name |-> <<"x", "A", "-", "1">>, ProductionYear |-> "2020",
              DateCreated |-> NoDate, People |-> << >>, Id |-> "j4"],
      bad |-> [Name |-> <<"B", "-", "2">>, ProductionYear |-> "2020", DateCreated |-> NoDate,
               People |-> << [Name |-> NoName, Type |-> "Actor"] >>, Id |-> "j5"] ]

\* item.get("DateCreated", "")[:10] if item.get("DateCreated") else ""
date_added_of(item) == IF item.DateCreated = NoDate THEN "" ELSE item.DateCreated.day

\* [a["Name"] for a in item.get("People", []) if a.get("Type") == "Actor"]
credited(item) == SelectSeq(item.People, LAMBDA a : a.Type = "Actor")
actors_of(item) == [i \in 1..Len(credited(item)) |-> credited(item)[i].Name]
\* a["Name"] raises KeyError
raises_key_error(item) == \E i \in 1..Len(credited(item)) : credited(item)[i].Name = NoName

\* an upsert that writes the column defaults
upsert_movie_defaults(rows, seq, item) ==
    LET code == extract_code(item.Name)
        row == [id |-> seq + 1, code |-> code, title |-> item.Name,
                year |-> item.ProductionYear, actors |-> actors_of(item),
                date_added |-> date_added_of(item), jellyfin_id |-> item.Id,
                score |-> 50, javdb_score |-> 0]
    IN  [rows |-> { r \in rows : r.code # code } \cup {row}, seq |-> seq + 1]

\* INSERT OR REPLACE INTO movies (...) VALUES (..., COALESCE((SELECT score ...), 50),
\* (SELECT javdb_score ...)): the row of this code gives way to a new row
upsert_movie(rows, seq, item) ==
    LET code == extract_code(item.Name)
        old == { r \in rows : r.code = code }
        row == [id |-> seq + 1, code |-> code, title |-> item.Name,
                year |-> item.ProductionYear, actors |-> actors_of(item),
                date_added |-> date_added_of(item), jellyfin_id |-> item.Id,
                score |-> IF old = {} THEN 50 ELSE (CHOOSE r \in old : TRUE).score,
                javdb_score |-> IF old = {} THEN 0 ELSE (CHOOSE r \in old : TRUE).javdb_score]
    IN  [rows |-> (rows \ old) \cup {row}, seq |-> seq + 1]

\* a connection of another thread holds the write lock of the database
locked_by_other(t) == \E u \in Tids : u # t /\ sj[u].open

\* api_sync: POST /api/sync runs sync_jellyfin()
api_sync ==
    /\ nthreads < env.threads
    /\ nthreads' = nthreads + 1
    /\ task' = [task EXCEPT ![nthreads + 1] = "sync"]
    /\ pc' = [pc EXCEPT ![nthreads + 1] = "sj_get"]
    /\ caller' = [caller EXCEPT ![nthreads + 1] = "request"]
    /\ sj' = [sj EXCEPT ![nthreads + 1] = NoSync]
    /\ UNCHANGED << actors, rss_items, rss_seq, movies, rss_update_state, javdb_task_state,
                    fr, ret, reqs, hist, bl, reply, env, movies_seq, calls, csv_files >>

\* lines 171-173: the request; a failure goes to the except clause
sync_get(t) ==
    /\ pc[t] = "sj_get"
    /\ \/ /\ sj' = [sj EXCEPT ![t].result = -1]
          /\ pc' = [pc EXCEPT ![t] = "done"]
       \/ \E items \in env.library :
             /\ sj' = [sj EXCEPT ![t].items = items]
             /\ pc' = [pc EXCEPT ![t] = IF items = <<>> THEN "sj_commit" ELSE "sj_item"]
    /\ UNCHANGED << actors, rss_items, rss_seq, movies, rss_update_state, javdb_task_state,
                    task, fr, ret, reqs, hist, bl, nthreads, reply, env, movies_seq, caller,
                    calls, csv_files >>

\* lines 177-201: one item of the loop; the first INSERT opens the transaction
sync_upsert(t) ==
    /\ pc[t] = "sj_item"
    /\ LET l == sj[t]
           item == l.items[l.idx + 1]
           next == IF l.idx + 1 < Len(l.items) THEN "sj_item" ELSE "sj_commit"
           base == IF l.open THEN l ELSE [l EXCEPT !.rows = movies, !.seq = movies_seq]
           w == upsert_movie(base.rows, base.seq, item)
       IN  IF extract_code(item.Name) = NoCode
           THEN /\ sj' = [sj EXCEPT ![t].idx = l.idx + 1]
                /\ pc' = [pc EXCEPT ![t] = next]
           ELSE IF raises_key_error(item)
           THEN /\ sj' = [sj EXCEPT ![t] = [NoSync EXCEPT !.result = -1]]
                /\ pc' = [pc EXCEPT ![t] = "done"]
           ELSE /\ ~locked_by_other(t)
                /\ sj' = [sj EXCEPT ![t] = [l EXCEPT !.idx = l.idx + 1, !.count = l.count + 1,
                                                     !.open = TRUE, !.rows = w.rows,
                                                     !.seq = w.seq]]
                /\ pc' = [pc EXCEPT ![t] = next]
    /\ UNCHANGED << actors, rss_items, rss_seq, movies, rss_update_state, javdb_task_state,
                    task, fr, ret, reqs, hist, bl, nthreads, reply, env, movies_seq, caller,
                    calls, csv_files >>

\* the INSERT waits for the write lock and gives up: "database is locked"
sync_locked(t) ==
    /\ pc[t] = "sj_item"
    /\ extract_code(sj[t].items[sj[t].idx + 1].Name) # NoCode
    /\ ~raises_key_error(sj[t].items[sj[t].idx + 1])
    /\ ~sj[t].open
    /\ locked_by_other(t)
    /\ sj' = [sj EXCEPT ![t] = [NoSync EXCEPT !.result = -1]]
    /\ pc' = [pc EXCEPT ![t] = "done"]
    /\ UNCHANGED << actors, rss_items, rss_seq, movies, rss_update_state, javdb_task_state,
                    task, fr, ret, reqs, hist, bl, nthreads, reply, env, movies_seq, caller,
                    calls, csv_files >>

\* lines 203-205: the one commit of the call
sync_commit(t) ==
    /\ pc[t] = "sj_commit"
    /\ movies' = IF sj[t].open THEN sj[t].rows ELSE movies
    /\ movies_seq' = IF sj[t].open THEN sj[t].seq ELSE movies_seq
    /\ sj' = [sj EXCEPT ![t] = [NoSync EXCEPT !.result = sj[t].count]]
    /\ pc' = [pc EXCEPT ![t] = "done"]
    /\ UNCHANGED << actors, rss_items, rss_seq, rss_update_state, javdb_task_state,
                    task, fr, ret, reqs, hist, bl, nthreads, reply, env, caller,
                    calls, csv_files >>


\* ------------------------------------------------- exceptions of the store
\* lines 460-462 raise (sqlite3.Error): nothing in fetch_all_rss_background
\* catches it and the thread ends
rss_bg_select_raises(t) ==
    /\ pc[t] = "bw_select"
    /\ env.dbfaults > 0
    /\ env' = [env EXCEPT !.dbfaults = @ - 1]
    /\ pc' = [pc EXCEPT ![t] = "crashed"]
    /\ UNCHANGED << actors, rss_items, rss_seq, movies, rss_update_state, javdb_task_state,
                    task, fr, ret, reqs, hist, bl, nthreads, reply, movies_seq, sj, caller,
                    calls, csv_files >>

\* lines 329-330 raise in the call that a batch or a handler made (not in a
\* retry, whose caller frame may catch it): the exception leaves fetch_rss and
\* its caller
fetch_rss_lookup_raises(t) ==
    /\ pc[t] = "fr_enter"
    /\ hist[t].n = 0
    /\ env.dbfaults > 0
    /\ env' = [env EXCEPT !.dbfaults = @ - 1]
    /\ pc' = [pc EXCEPT ![t] = "crashed"]
    /\ UNCHANGED << actors, rss_items, rss_seq, movies, rss_update_state, javdb_task_state,
                    task, fr, ret, reqs, hist, bl, nthreads, reply, movies_seq, sj, caller,
                    calls, csv_files >>

\* lines 1251-1254 raise: nothing in fetch_javdb_scores_background catches it
javdb_bg_select_raises(t) ==
    /\ pc[t] = "jw_select"
    /\ env.dbfaults > 0
    /\ env' = [env EXCEPT !.dbfaults = @ - 1]
    /\ pc' = [pc EXCEPT ![t] = "crashed"]
    /\ UNCHANGED << actors, rss_items, rss_seq, movies, rss_update_state, javdb_task_state,
                    task, fr, ret, reqs, hist, bl, nthreads, reply, movies_seq, sj, caller,
                    calls, csv_files >>


\* ---------------------------------------------------------- specifications
Catalogs ==
    { {},
      { [id |-> 1, code |-> <<"A", "-", "1">>, actors |-> <<"n1">>, javdb_score |-> 0] } }

\* ------------------------------------------- api_actor_fetch_javdb_scores
ActorNames == { ActorName(a) : a \in ActorIds }
InSeq(x, q) == \E i \in 1..Len(q) : q[i] = x

\* SELECT id, code, javdb_score FROM movies WHERE actors LIKE ? AND
\* (javdb_score IS NULL OR javdb_score = '')
unrated_movies_of(name) ==
    LET ids == Ascending({ m.id : m \in { r \in movies :
                               r.javdb_score = 0 /\ InSeq(name, r.actors) } })
    IN  [i \in 1..Len(ids) |-> CHOOSE m \in movies : m.id = ids[i]]

\* the answer of api_actor_fetch_javdb_scores
actor_fetch_reply(b) ==
    [op |-> "api_actor_fetch_javdb_scores", success |-> TRUE, total |-> b.total,
     success_count |-> b.success_count, fail_count |-> b.fail_count]

\* POST /api/actor/<actor_name>/fetch_javdb_scores, lines 885-903: the request
\* selects the performer's unrated titles
api_actor_fetch_javdb_scores(actor_name) ==
    /\ nthreads < env.threads
    /\ LET t == nthreads + 1
           found == unrated_movies_of(actor_name)
           b == [NoLocals EXCEPT !.items = found, !.total = Len(found)]
       IN  /\ nthreads' = t
           /\ task' = [task EXCEPT ![t] = "javdb_actor"]
           /\ caller' = [caller EXCEPT ![t] = "request"]
           /\ IF found = <<>>
              THEN /\ pc' = [pc EXCEPT ![t] = "done"]
                   /\ reply' = actor_fetch_reply(b)
                   /\ UNCHANGED bl
              ELSE /\ pc' = [pc EXCEPT ![t] = "af_fetch"]
                   /\ bl' = [bl EXCEPT ![t] = b]
                   /\ UNCHANGED reply
    /\ UNCHANGED << actors, rss_items, rss_seq, movies, rss_update_state,
                    javdb_task_state, fr, ret, reqs, hist, env >>
    /\ UNCHANGED << movies_seq, sj, calls, csv_files >>

\* lines 905-927: one title: time.sleep(2) before every title but the first,
\* the scraper's answer and the UPDATE
actor_fetch_one(t) ==
    /\ pc[t] = "af_fetch"
    /\ bl[t].idx < Len(bl[t].items)
    /\ \E score \in ScraperResults :
         LET b == bl[t]
             i == b.idx + 1
             movie == b.items[i]
         IN  /\ movies' = IF score # 0 THEN update_score_by_id(movies, movie.id, score)
                          ELSE movies
             /\ bl' = [bl EXCEPT ![t] =
                    [b EXCEPT !.idx = i,
                              !.success_count = IF score # 0 THEN @ + 1 ELSE @,
                              !.fail_count = IF score # 0 THEN @ ELSE @ + 1,
                              !.delays = IF i > 1 THEN @ + 1 ELSE @]]
    /\ UNCHANGED << actors, rss_items, rss_seq, rss_update_state, javdb_task_state, pc, task,
                    fr, ret, reqs, hist, nthreads, reply, env >>
    /\ UNCHANGED << movies_seq, sj, calls, csv_files, caller >>

\* lines 929-934: the request answers and its locals end with it
actor_fetch_return(t) ==
    /\ pc[t] = "af_fetch"
    /\ bl[t].idx = Len(bl[t].items)
    /\ reply' = actor_fetch_reply(bl[t])
    /\ pc' = [pc EXCEPT ![t] = "done"]
    /\ bl' = [bl EXCEPT ![t] = NoLocals]
    /\ UNCHANGED << actors, rss_items, rss_seq, movies, rss_update_state, javdb_task_state,
                    task, fr, ret, reqs, hist, nthreads, env >>
    /\ UNCHANGED << movies_seq, sj, calls, csv_files, caller >>

\* ------------------------------------------------------------ javdb_scraper
\* a pattern of parse_movie_page that does not match the page, and a text the
\* fourth pattern ([\d.]+) matches that float() rejects, "1.2.3" for instance
NoMatch == -1
BadNumber == -2

\* a detail page, as what each of the four re.search calls of parse_movie_page
\* finds in it: data-score attribute, rating-class text, x/5, x followed by the
\* character for "points"; ratings in tenths
DetailPages ==
    [p1 : {NoMatch, 0, 46}, p2 : {NoMatch, 38}, p3 : {NoMatch, 41},
     p4 : {NoMatch, 30, BadNumber}]

\* a search page: it links a title, it says there are no results, or neither
SearchPages == {"link", "noresults", "nolink"}

\* what session.get gives: an exception, or a response with a status and,
\* with status 200, a page
NoPage == [p1 |-> NoMatch, p2 |-> NoMatch, p3 |-> NoMatch, p4 |-> NoMatch]

SearchResponses ==
    { [kind |-> "exception", status |-> 0, html |-> "none"] }
    \cup { [kind |-> "response", status |-> st, html |-> "none"] : st \in {403, 404} }
    \cup { [kind |-> "response", status |-> 200, html |-> b] : b \in SearchPages }

DetailResponses ==
    { [kind |-> "exception", status |-> 0, html |-> NoPage] }
    \cup { [kind |-> "response", status |-> st, html |-> NoPage] : st \in {403, 404} }
    \cup { [kind |-> "response", status |-> 200, html |-> b] : b \in DetailPages }

\* parse_movie_page, lines 156-211: the first pattern that matches decides;
\* [raises, javdb_score] with NoMatch for a result whose javdb_score is None
parse_movie_page(html) ==
    LET found == IF html.p1 # NoMatch THEN html.p1
                 ELSE IF html.p2 # NoMatch THEN html.p2
                 ELSE IF html.p3 # NoMatch THEN html.p3
                 ELSE html.p4
    IN  [raises |-> found = BadNumber, javdb_score |-> found]

\* the same sleep after every failed try
scraper_backoff_flat(retry) == 5

\* time.sleep(5 * (retry + 1))
scraper_backoff(retry) == 5 * (retry + 1)

\* an exception that leaves the loop when the retries are used up
retry_or_raise(t, retry) ==
    IF retry < MAX_RETRIES - 1
    THEN [pc |-> pc[t], retry |-> retry + 1, wait |-> scraper_backoff(retry),
          result |-> NoMatch]
    ELSE [pc |-> "raised", retry |-> retry, wait |-> 0, result |-> NoMatch]

\* lines 64-69, 105-110, 130-135 and 146-151: a 403 or an exception sleeps and
\* tries again while retries are left, then the function returns None
retry_or_none(t, retry) ==
    IF retry < MAX_RETRIES - 1
    THEN [pc |-> pc[t], retry |-> retry + 1, wait |-> scraper_backoff(retry),
          result |-> NoMatch]
    ELSE [pc |-> "gs_return", retry |-> retry, wait |-> 0, result |-> NoMatch]

\* get_javdb_score, lines 214-224: the call enters search_javdb with retry 0;
\* calls are made one at a time and the last finished one is kept
get_javdb_score(code) ==
    /\ nthreads < env.threads
    /\ \A t \in Tids : pc[t] \in {"unborn", "done", "raised"}
    /\ LET t == nthreads + 1
       IN  /\ nthreads' = t
           /\ task' = [task EXCEPT ![t] = "javdb_score"]
           /\ pc' = [pc EXCEPT ![t] = "gs_search"]
           /\ fr' = [fr EXCEPT ![t] = [code |-> code, retry |-> 0]]
           /\ reqs' = [reqs EXCEPT ![t] = <<>>]
           /\ calls' = <<>>
    /\ UNCHANGED << actors, rss_items, rss_seq, movies, rss_update_state,
                    javdb_task_state, ret, hist, bl, reply, env >>
    /\ UNCHANGED << movies_seq, sj, csv_files, caller >>

\* search_javdb, lines 59-112: one pass of the loop: random_delay(), the
\* request, and what its answer decides
search_javdb(t) ==
    /\ pc[t] = "gs_search"
    /\ \E resp \in SearchResponses :
            LET retry == fr[t].retry
                o == IF resp.kind = "exception" \/ resp.status = 403
                     THEN retry_or_none(t, retry)
                     ELSE IF resp.status = 200 /\ resp.html = "link"
                     THEN [pc |-> "gs_detail", retry |-> 0, wait |-> 0, result |-> NoMatch]
                     ELSE [pc |-> "gs_return", retry |-> retry, wait |-> 0,
                           result |-> NoMatch]
            IN  /\ pc' = [pc EXCEPT ![t] = o.pc]
                /\ fr' = [fr EXCEPT ![t].retry = o.retry]
                /\ ret' = [ret EXCEPT ![t] = [javdb_score |-> o.result]]
                /\ reqs' = [reqs EXCEPT ![t] = Append(@,
                       [page |-> "search", retry |-> retry, kind |-> resp.kind,
                        status |-> resp.status, wait |-> o.wait])]
    /\ UNCHANGED << actors, rss_items, rss_seq, movies, rss_update_state,
                    javdb_task_state, task, hist, bl, nthreads, reply, env >>
    /\ UNCHANGED << movies_seq, sj, calls, csv_files, caller >>

\* get_movie_detail, lines 125-153: one pass of the loop; a ValueError of
\* parse_movie_page is caught by the same except clause as a network error
get_movie_detail(t) ==
    /\ pc[t] = "gs_detail"
    /\ \E resp \in DetailResponses :
            LET retry == fr[t].retry
                parsed == IF resp.status = 200 THEN parse_movie_page(resp.html)
                          ELSE [raises |-> FALSE, javdb_score |-> NoMatch]
                o == IF resp.kind = "exception" \/ resp.status = 403 \/ parsed.raises
                     THEN retry_or_none(t, retry)
                     ELSE [pc |-> "gs_return", retry |-> retry, wait |-> 0,
                           result |-> parsed.javdb_score]
            IN  /\ pc' = [pc EXCEPT ![t] = o.pc]
                /\ fr' = [fr EXCEPT ![t].retry = o.retry]
                /\ ret' = [ret EXCEPT ![t] = [javdb_score |-> o.result]]
                /\ reqs' = [reqs EXCEPT ![t] = Append(@,
                       [page |-> "detail", retry |-> retry, kind |-> resp.kind,
                        status |-> resp.status, wait |-> o.wait,
                        html |-> resp.html])]
    /\ UNCHANGED << actors, rss_items, rss_seq, movies, rss_update_state,
                    javdb_task_state, task, hist, bl, nthreads, reply, env >>
    /\ UNCHANGED << movies_seq, sj, calls, csv_files, caller >>

\* get_javdb_score, lines 226-230: the rating when the result carries a truthy
\* one, else None (NoMatch); the call is kept with the requests it made
get_javdb_score_return(t) ==
    /\ pc[t] = "gs_return"
    /\ LET found == ret[t].javdb_score
           score == IF found = NoMatch \/ found = 0 THEN NoMatch ELSE found
       IN  calls' = Append(calls, [op |-> "get_javdb_score", code |-> fr[t].code,
                                   requests |-> reqs[t], result |-> score])
    /\ pc' = [pc EXCEPT ![t] = "done"]
    /\ fr' = [fr EXCEPT ![t] = NoFrame]
    /\ ret' = [ret EXCEPT ![t] = NoRet]
    /\ reqs' = [reqs EXCEPT ![t] = <<>>]
    /\ UNCHANGED << actors, rss_items, rss_seq, movies, rss_update_state,
                    javdb_task_state, task, hist, bl, nthreads, reply, env >>
    /\ UNCHANGED << movies_seq, sj, csv_files, caller >>

\* ------------------------------------------------------------ status reads
\* results[-50:] if results else []
LastN(log, n) == IF Len(log) <= n THEN log ELSE SubSeq(log, Len(log) - n + 1, Len(log))

\* api_rss_status: GET /api/rss/status
api_rss_status ==
    /\ env.reads > 0
    /\ env' = [env EXCEPT !.reads = @ - 1]
    /\ reply' = [op |-> "api_rss_status",
                 is_running |-> rss_update_state.is_running,
                 is_complete |-> rss_update_state.is_complete,
                 start_time |-> rss_update_state.start_time,
                 end_time |-> rss_update_state.end_time,
                 summary |-> rss_update_state.summary,
                 results |-> LastN(rss_update_state.results, STATUS_WINDOW)]
    /\ UNCHANGED << actors, rss_items, rss_seq, movies, rss_update_state, javdb_task_state,
                    pc, task, fr, ret, reqs, hist, bl, nthreads >>
    /\ UNCHANGED << movies_seq, sj, calls, csv_files, caller >>

\* api_javdb_task_status: GET /api/javdb_task_status
api_javdb_task_status ==
    /\ env.reads > 0
    /\ env' = [env EXCEPT !.reads = @ - 1]
    /\ reply' = [op |-> "api_javdb_task_status",
                 is_running |-> javdb_task_state.is_running,
                 is_complete |-> javdb_task_state.is_complete,
                 start_time |-> javdb_task_state.start_time,
                 end_time |-> javdb_task_state.end_time,
                 summary |-> javdb_task_state.summary,
                 results |-> LastN(javdb_task_state.results, STATUS_WINDOW)]
    /\ UNCHANGED << actors, rss_items, rss_seq, movies, rss_update_state, javdb_task_state,
                    pc, task, fr, ret, reqs, hist, bl, nthreads >>
    /\ UNCHANGED << movies_seq, sj, calls, csv_files, caller >>

InitIdle ==
    /\ pc = [t \in Tids |-> "unborn"]
    /\ task = [t \in Tids |-> "none"]
    /\ fr = [t \in Tids |-> NoFrame]
    /\ ret = [t \in Tids |-> NoRet]
    /\ reqs = [t \in Tids |-> <<>>]
    /\ hist = [t \in Tids |-> NoHist]
    /\ bl = [t \in Tids |-> NoLocals]
    /\ nthreads = 0
    /\ reply = NoReply
    /\ rss_update_state = IdleJob
    /\ javdb_task_state = IdleJob
    /\ sj = [t \in Tids |-> NoSync]
    /\ caller = [t \in Tids |-> "none"]
    /\ calls = <<>>

InitThreads ==
    /\ InitIdle
    /\ csv_files = NoFiles

\* one pollOne call against a store with two configured performers
InitPoll ==
    /\ InitThreads
    /\ actors = [a \in ActorIds |-> [present |-> TRUE, javbus_id |-> a, last_updated |-> 0]]
    /\ rss_items = {}
    /\ rss_seq = 0
    /\ movies \in Catalogs
    /\ movies_seq = MaxId(movies)
    /\ env = [threads |-> 1, faults |-> MaxPollFaults, docs |-> GoodDocs, starts |-> 0,
              singles |-> 0, watches |-> 0,
              library |-> {}, dbfaults |-> 0, reads |-> 0, calls |-> 0]

NextPoll ==
    \/ \E a \in ActorIds : api_rss_refresh_actor(a)
    \/ \E t \in Tids : fetch_rss_enter(t)
    \/ \E t \in Tids : fetch_rss_get(t)

SpecPoll == InitPoll /\ [][NextPoll]_vars


\* the job trackers: start requests, batch workers and single-title fetches
JobDocs == { [ok |-> TRUE, items |-> << <<"A", "-", "1">> >>] }

JobCatalog ==
    { [id |-> 1, code |-> <<"A", "-", "1">>, actors |-> <<"n1">>, javdb_score |-> 0],
      [id |-> 2, code |-> <<"B", "-", "2">>, actors |-> <<"n1", "n2">>, javdb_score |-> 0] }

Init ==
    /\ InitThreads
    /\ actors = [a \in ActorIds |-> [present |-> TRUE, javbus_id |-> a, last_updated |-> 0]]
    /\ rss_items = {}
    /\ rss_seq = 0
    /\ movies = JobCatalog
    /\ movies_seq = MaxId(movies)
    /\ env = [threads |-> MaxThreads, faults |-> MaxJobFaults, docs |-> JobDocs,
              starts |-> MaxStarts, singles |-> MaxSingles, watches |-> 0,
              library |-> {}, dbfaults |-> 0, reads |-> 0, calls |-> 0]

RssWorker(t) ==
    \/ rss_bg_set_running(t)
    \/ rss_bg_clear_complete(t)
    \/ rss_bg_set_start_time(t)
    \/ rss_bg_reset_results(t)
    \/ rss_bg_select(t)
    \/ fetch_rss_enter(t)
    \/ fetch_rss_get(t)
    \/ rss_bg_record(t)
    \/ rss_bg_clear_running(t)
    \/ rss_bg_set_complete(t)
    \/ rss_bg_set_end_time(t)
    \/ rss_bg_set_summary(t)

JavdbWorker(t) ==
    \/ javdb_bg_set_running(t)
    \/ javdb_bg_clear_complete(t)
    \/ javdb_bg_set_start_time(t)
    \/ javdb_bg_reset_results(t)
    \/ javdb_bg_select(t)
    \/ javdb_bg_fetch(t)
    \/ javdb_bg_clear_running(t)
    \/ javdb_bg_set_complete(t)
    \/ javdb_bg_set_end_time(t)
    \/ javdb_bg_set_summary(t)

SingleFetch(t) ==
    \/ javdb_single_append(t)
    \/ javdb_single_fetch(t)
    \/ javdb_single_summary(t)

Next ==
    \/ api_rss_refresh
    \/ api_fetch_javdb_scores
    \/ \E c \in {m.code : m \in JobCatalog} : api_test_javdb(c)
    \/ \E t \in Tids : RssWorker(t)
    \/ \E t \in Tids : JavdbWorker(t)
    \/ \E t \in Tids : SingleFetch(t)

Spec == Init /\ [][Next]_vars


\* the start gates alone: start requests and the batch workers they launch,
\* with one configured performer, one unrated title and a healthy endpoint
GateCatalog ==
    { [id |-> 1, code |-> <<"A", "-", "1">>, actors |-> <<"n1">>, javdb_score |-> 0] }

InitGate ==
    /\ InitThreads
    /\ actors = [a \in ActorIds |->
                    [present |-> TRUE, javbus_id |-> IF a = 1 THEN 1 ELSE 0,
                     last_updated |-> 0]]
    /\ rss_items = {}
    /\ rss_seq = 0
    /\ movies = GateCatalog
    /\ movies_seq = MaxId(movies)
    /\ env = [threads |-> MaxThreads, faults |-> 0, docs |-> JobDocs,
              starts |-> MaxStarts, singles |-> 0, watches |-> 0,
              library |-> {}, dbfaults |-> 0, reads |-> 0, calls |-> 0]

NextGate ==
    \/ api_rss_refresh
    \/ api_fetch_javdb_scores
    \/ \E t \in Tids : RssWorker(t)
    \/ \E t \in Tids : JavdbWorker(t)

SpecGate == InitGate /\ [][NextGate]_vars

\* the feed store: single polls and both batch forms against a healthy
\* endpoint; one performer has a feed, the other has none
FeedDocs ==
    { [ok |-> TRUE, items |-> << <<"A", "-", "1">>, <<"A", "-", "1", " ", "x">> >>],
      [ok |-> TRUE, items |-> << <<"x", "A", "-", "1">>, <<"B", "-", "2">> >>] }

FeedCatalog ==
    { [id |-> 1, code |-> <<"A", "-", "1">>, actors |-> <<"n1">>, javdb_score |-> 0] }

InitFeed ==
    /\ InitThreads
    /\ actors = [a \in ActorIds |->
                    [present |-> TRUE, javbus_id |-> IF a = 1 THEN 1 ELSE 0,
                     last_updated |-> 0]]
    /\ rss_items = {}
    /\ rss_seq = 0
    /\ movies = FeedCatalog
    /\ movies_seq = MaxId(movies)
    /\ env = [threads |-> MaxPolls, faults |-> 0, docs |-> FeedDocs,
              starts |-> MaxPolls, singles |-> 0, watches |-> 0,
              library |-> {}, dbfaults |-> 0, reads |-> 0, calls |-> 0]

NextFeed ==
    \/ \E a \in ActorIds : api_rss_refresh_actor(a)
    \/ api_rss_refresh_sync
    \/ api_rss_refresh
    \/ \E t \in Tids : RssWorker(t)
    \/ \E t \in Tids : rss_sync_select(t)
    \/ \E t \in Tids : rss_sync_record(t)

SpecFeed == InitFeed /\ [][NextFeed]_vars

\* the watched flag: single polls and synchronous batches against a healthy
\* endpoint while the user changes watched flags
ItemIds == 1..(MaxPolls * MaxEntries * 2)

InitWatch ==
    /\ InitThreads
    /\ actors = [a \in ActorIds |->
                    [present |-> TRUE, javbus_id |-> IF a = 1 THEN 1 ELSE 0,
                     last_updated |-> 0]]
    /\ rss_items = {}
    /\ rss_seq = 0
    /\ movies = FeedCatalog
    /\ movies_seq = MaxId(movies)
    /\ env = [threads |-> MaxPolls, faults |-> 0, docs |-> FeedDocs,
              starts |-> 0, singles |-> 0, watches |-> MaxWatches,
              library |-> {}, dbfaults |-> 0, reads |-> 0, calls |-> 0]

NextWatch ==
    \/ \E a \in ActorIds : api_rss_refresh_actor(a)
    \/ api_rss_refresh_sync
    \/ \E t \in Tids : fetch_rss_enter(t)
    \/ \E t \in Tids : fetch_rss_get(t)
    \/ \E t \in Tids : rss_sync_select(t)
    \/ \E t \in Tids : rss_sync_record(t)
    \/ \E i \in ItemIds, w \in BOOLEAN : api_rss_item_watch(i, w)

SpecWatch == InitWatch /\ [][NextWatch]_vars

\* the catalog: concurrent catalog syncs against a store that holds a title
\* with a computed score and a rating
SyncCatalogs ==
    { {},
      { [id |-> 1, code |-> <<"A", "-", "1">>, title |-> <<"A", "-", "1">>, year |-> "2019",
         actors |-> <<"n1">>, date_added |-> "d0", jellyfin_id |-> "j0",
         score |-> 85, javdb_score |-> 46] },
      { [id |-> 1, code |-> <<"A", "-", "1">>, title |-> <<"A", "-", "1">>, year |-> "2019",
         actors |-> <<"n1">>, date_added |-> "d0", jellyfin_id |-> "j0",
         score |-> 35, javdb_score |-> 0],
        [id |-> 3, code |-> <<"B", "-", "2">>, title |-> <<"B", "-", "2">>, year |-> "",
         actors |-> << >>, date_added |-> "", jellyfin_id |-> "j3",
         score |-> 50, javdb_score |-> 41] } }

\* what the media library answers: lists of items
LibraryDocs ==
    LET i == LibraryItems
    IN  { << >>, << i.a1 >>, << i.a2, i.b >>, << i.a1, i.a2 >>, << i.x, i.a1 >>,
          << i.b, i.bad, i.a1 >>, << i.a2, i.bad >> }

InitSync ==
    /\ InitThreads
    /\ actors = [a \in ActorIds |-> [present |-> TRUE, javbus_id |-> a, last_updated |-> 0]]
    /\ rss_items = {}
    /\ rss_seq = 0
    /\ movies \in SyncCatalogs
    /\ movies_seq \in { MaxId(movies), MaxId(movies) + 1 }
    /\ env = [threads |-> MaxSyncs, faults |-> 0, docs |-> {}, starts |-> 0,
              singles |-> 0, watches |-> 0,
              library |-> LibraryDocs, dbfaults |-> 0, reads |-> 0, calls |-> 0]

NextSync ==
    \/ api_sync
    \/ \E t \in Tids : sync_get(t)
    \/ \E t \in Tids : sync_upsert(t)
    \/ \E t \in Tids : sync_locked(t)
    \/ \E t \in Tids : sync_commit(t)

SpecSync == InitSync /\ [][NextSync]_vars


\* one batch run at a time, with a store whose reads can fail, under fair
\* scheduling of the worker thread
InitLive ==
    /\ InitThreads
    /\ actors = [a \in ActorIds |-> [present |-> TRUE, javbus_id |-> a, last_updated |-> 0]]
    /\ rss_items = {}
    /\ rss_seq = 0
    /\ movies = JobCatalog
    /\ movies_seq = MaxId(movies)
    /\ env = [threads |-> MaxRuns, faults |-> MaxJobFaults, docs |-> JobDocs,
              starts |-> MaxStarts, singles |-> 0, watches |-> 0,
              library |-> {}, dbfaults |-> MaxStoreFaults, reads |-> 0, calls |-> 0]

LiveWorker(t) ==
    \/ RssWorker(t)
    \/ JavdbWorker(t)
    \/ rss_bg_select_raises(t)
    \/ fetch_rss_lookup_raises(t)
    \/ javdb_bg_select_raises(t)

NextLive ==
    \/ api_rss_refresh
    \/ api_fetch_javdb_scores
    \/ \E t \in Tids : LiveWorker(t)

SpecLive == InitLive /\ [][NextLive]_vars /\ \A t \in Tids : WF_vars(LiveWorker(t))


\* --------------------------------------------- claims about the job trackers
\* a batch worker that has executed its first statement and has not finished
Executing(t) == pc[t] \notin {"unborn", "bw_run", "jw_run", "done"}

\* ------------------------------------------------- calculate_movie_score
A1 == <<"A", "-", "1">>
B2 == <<"B", "-", "2">>
Row(name, number) == [name |-> name, number |-> number]

\* the ranking sources of the worked example: A-1 on the primary and the
\* secondary list and on one annual list
ExampleFiles ==
    [l \in Labels |->
        CASE l = "JavDB TOP250" -> CsvFile(<< Row(A1, <<"4", "0">>) >>)
          [] l = "JavLibray TOP500" -> CsvFile(<< Row(A1, <<"1", "2">>), Row(B2, <<"7">>) >>)
          [] l = "JavDB 2024 TOP250" -> CsvFile(<< Row(A1, <<"3">>) >>)
          [] OTHER -> CsvFile(<<>>)]

\* A-1 on the primary list only and on two annual lists, one source missing
AnnualFiles ==
    [l \in Labels |->
        CASE l = "JavDB TOP250" -> CsvFile(<< Row(A1, <<"1">>) >>)
          [] l = "JavLibray TOP500" -> MissingFile
          [] l = "JavDB 2025 TOP250" -> CsvFile(<< Row(A1, <<"5">>) >>)
          [] l = "JavDB 2023 TOP250" -> CsvFile(<< Row(A1, <<"9">>), Row(B2, <<>>) >>)
          [] OTHER -> CsvFile(<<>>)]

Snapshots == { NoFiles, ExampleFiles, AnnualFiles }

\* two titles, one with a stored rating
ScoreCatalog ==
    { [id |-> 1, code |-> A1, actors |-> <<"n1">>, javdb_score |-> 0],
      [id |-> 2, code |-> B2, actors |-> <<"n1", "n2">>, javdb_score |-> 36] }

ScoreCodes == {A1, B2}
ScoreActors == { <<>>, <<"n1">>, <<"n1", "n2">>, <<"n2", "n2">>, <<" n1", "">>, <<"x", " ", "y">> }
ScoreRatings == {0, 46, 45, 43, 42, 40, 39, 36, 35, 30}

\* one call over the full input sets, against a store and a snapshot drawn
\* from bounded sets
InitScore ==
    /\ InitIdle
    /\ csv_files \in Snapshots
    /\ actors \in { [a \in ActorIds |-> [present |-> TRUE, javbus_id |-> j[a], last_updated |-> 0]] :
                       j \in [ActorIds -> {0, 1}] }
    /\ rss_items = {}
    /\ rss_seq = 0
    /\ movies = ScoreCatalog
    /\ movies_seq = MaxId(movies)
    /\ env = [threads |-> 0, faults |-> 0, docs |-> {},
              starts |-> 0, singles |-> 0, watches |-> 0,
              library |-> {}, dbfaults |-> 0, reads |-> 0, calls |-> MaxScoreCalls]

NextScore ==
    \E code \in ScoreCodes, actors_str \in ScoreActors, javdb_score \in ScoreRatings :
        score_call(code, actors_str, javdb_score)

SpecScore == InitScore /\ [][NextScore]_vars

\* calls compared: the same arguments while requests change the store
TwiceActors == { <<"n1", "n2">> }
TwiceCatalog == { [id |-> 1, code |-> A1, actors |-> <<"n1", "n2">>, javdb_score |-> 0] }
TwiceRatings == {0, 30}

InitTwice ==
    /\ InitIdle
    /\ csv_files = ExampleFiles
    /\ actors = [a \in ActorIds |-> [present |-> TRUE, javbus_id |-> 0, last_updated |-> 0]]
    /\ rss_items = {}
    /\ rss_seq = 0
    /\ movies = TwiceCatalog
    /\ movies_seq = MaxId(movies)
    /\ env = [threads |-> MaxRuns, faults |-> 0, docs |-> {},
              starts |-> 0, singles |-> 0, watches |-> MaxWatches,
              library |-> {}, dbfaults |-> 0, reads |-> 0, calls |-> MaxCalls]

NextTwice ==
    \/ \E actors_str \in TwiceActors, javdb_score \in TwiceRatings :
           score_call(A1, actors_str, javdb_score)
    \/ \E a \in ActorIds, j \in {0, 1} : api_rss_actor_update(a, j)
    \/ \E n \in ActorNames : api_actor_fetch_javdb_scores(n)
    \/ \E t \in Tids : actor_fetch_one(t)
    \/ \E t \in Tids : actor_fetch_return(t)

SpecTwice == InitTwice /\ [][NextTwice]_vars

\* ------------------------------------------------------------ extract_code
\* the characters of a title: a letter of A-Z, the dash, an ASCII digit, a
\* fullwidth digit, a lower-case letter
TitleChars == {"A", "-", "1", "U+FF11", "x"}
Titles == SeqsUpTo(TitleChars, MaxTitleLen)

NoEnv == [threads |-> 0, faults |-> 0, docs |-> {}, starts |-> 0, singles |-> 0,
          watches |-> 0, library |-> {}, dbfaults |-> 0, reads |-> 0, calls |-> 0]

InitExtract ==
    /\ InitThreads
    /\ actors = [a \in ActorIds |-> [present |-> TRUE, javbus_id |-> 0, last_updated |-> 0]]
    /\ rss_items = {}
    /\ rss_seq = 0
    /\ movies = {}
    /\ movies_seq = 0
    /\ env = NoEnv

NextExtract == \E title \in Titles : extract_code_call(title)

SpecExtract == InitExtract /\ [][NextExtract]_vars

\* ---------------------------------------------------------- load_csv_codes
\* the rows a ranking source can hold: ranks 40 and 12 for A-1, a row without
\* a rank, another code, a short row, a row without a code
RowPool ==
    { Row(A1, <<"4", "0">>), Row(A1, <<"1", "2">>), Row(A1, <<>>),
      Row(B2, <<"7">>), Row(B2, NoField), Row(<<"x">>, <<"1">>) }

\* the primary list holds the rows drawn; the other sources are empty files
\* or missing
InitLoad ==
    /\ InitIdle
    /\ \E rows \in SeqsUpTo(RowPool, MaxRows), other \in {CsvFile(<<>>), MissingFile} :
           csv_files = [l \in Labels |->
                           IF l = "JavDB TOP250" THEN CsvFile(rows) ELSE other]
    /\ actors = [a \in ActorIds |-> [present |-> TRUE, javbus_id |-> 0, last_updated |-> 0]]
    /\ rss_items = {}
    /\ rss_seq = 0
    /\ movies = {}
    /\ movies_seq = 0
    /\ env = NoEnv

NextLoad == load_csv_codes_call

SpecLoad == InitLoad /\ [][NextLoad]_vars

\* ----------------------------------------------------------- get_javdb_score
\* calls of the scraper against a site that answers as it likes
InitScraper ==
    /\ InitThreads
    /\ actors = [a \in ActorIds |-> [present |-> TRUE, javbus_id |-> 0, last_updated |-> 0]]
    /\ rss_items = {}
    /\ rss_seq = 0
    /\ movies = {}
    /\ movies_seq = 0
    /\ env = [NoEnv EXCEPT !.threads = MaxScoreCalls]

NextScraper ==
    \/ get_javdb_score(A1)
    \/ \E t \in Tids : search_javdb(t)
    \/ \E t \in Tids : get_movie_detail(t)
    \/ \E t \in Tids : get_javdb_score_return(t)

SpecScraper == InitScraper /\ [][NextScraper]_vars

\* feed refresh batches on one worker thread, with feed faults, store faults
\* and start requests that find a run in progress
InitBatch ==
    /\ InitThreads
    /\ actors = [a \in ActorIds |-> [present |-> TRUE, javbus_id |-> a, last_updated |-> 0]]
    /\ rss_items = {}
    /\ rss_seq = 0
    /\ movies = JobCatalog
    /\ movies_seq = MaxId(movies)
    /\ env = [threads |-> MaxRuns, faults |-> MaxJobFaults, docs |-> JobDocs,
              starts |-> MaxStarts, singles |-> 0, watches |-> 0,
              library |-> {}, dbfaults |-> MaxStoreFaults, reads |-> 0, calls |-> 0]

NextBatch ==
    \/ api_rss_refresh
    \/ \E t \in Tids : RssWorker(t)
    \/ \E t \in Tids : rss_bg_select_raises(t)
    \/ \E t \in Tids : fetch_rss_lookup_raises(t)

SpecBatch == InitBatch /\ [][NextBatch]_vars

\* a rating backfill while the catalog is synced: one title without a rating
BackfillCatalog ==
    { [id |-> 1, code |-> <<"A", "-", "1">>, title |-> <<"A", "-", "1">>, year |-> "2019",
       actors |-> <<"n1">>, date_added |-> "d0", jellyfin_id |-> "j0",
       score |-> 35, javdb_score |-> 0],
      [id |-> 3, code |-> <<"B", "-", "2">>, title |-> <<"B", "-", "2">>, year |-> "",
       actors |-> << >>, date_added |-> "", jellyfin_id |-> "j3",
       score |-> 50, javdb_score |-> 41] }

BackfillLibrary == { << LibraryItems.a1 >>, << LibraryItems.a2, LibraryItems.b >> }

InitBackfill ==
    /\ InitThreads
    /\ actors = [a \in ActorIds |-> [present |-> TRUE, javbus_id |-> a, last_updated |-> 0]]
    /\ rss_items = {}
    /\ rss_seq = 0
    /\ movies = BackfillCatalog
    /\ movies_seq = MaxId(movies)
    /\ env = [threads |-> MaxThreads, faults |-> 0, docs |-> {}, starts |-> MaxRuns,
              singles |-> 0, watches |-> 0,
              library |-> BackfillLibrary, dbfaults |-> 0, reads |-> 0, calls |-> 0]

NextBackfill ==
    \/ api_fetch_javdb_scores
    \/ api_sync
    \/ \E t \in Tids : JavdbWorker(t)
    \/ \E t \in Tids : sync_get(t)
    \/ \E t \in Tids : sync_upsert(t)
    \/ \E t \in Tids : sync_locked(t)
    \/ \E t \in Tids : sync_commit(t)

SpecBackfill == InitBackfill /\ [][NextBackfill]_vars

\* polls of single performers, with failing responses, while feed identifiers
\* are changed
InitStamp ==
    /\ InitThreads
    /\ actors = [a \in ActorIds |-> [present |-> TRUE, javbus_id |-> a, last_updated |-> 0]]
    /\ rss_items = {}
    /\ rss_seq = 0
    /\ movies = FeedCatalog
    /\ movies_seq = MaxId(movies)
    /\ env = [threads |-> 1, faults |-> MaxPollFaults, docs |-> JobDocs, starts |-> 0,
              singles |-> 0, watches |-> MaxWatches,
              library |-> {}, dbfaults |-> 0, reads |-> 0, calls |-> 0]

NextStamp ==
    \/ \E a \in ActorIds : api_rss_refresh_actor(a)
    \/ \E a \in ActorIds, j \in {0, 1} : api_rss_actor_update(a, j)
    \/ \E t \in Tids : fetch_rss_enter(t)
    \/ \E t \in Tids : fetch_rss_get(t)

SpecStamp == InitStamp /\ [][NextStamp]_vars

\* polls of single performers while performers are deleted
InitDelete ==
    /\ InitThreads
    /\ actors = [a \in ActorIds |-> [present |-> TRUE, javbus_id |-> a, last_updated |-> 0]]
    /\ rss_items = {}
    /\ rss_seq = 0
    /\ movies = FeedCatalog
    /\ movies_seq = MaxId(movies)
    /\ env = [threads |-> MaxPolls, faults |-> 0, docs |-> FeedDocs,
              starts |-> 0, singles |-> 0, watches |-> 0,
              library |-> {}, dbfaults |-> 0, reads |-> 0, calls |-> 0]

NextDelete ==
    \/ \E a \in ActorIds : api_rss_refresh_actor(a)
    \/ \E a \in ActorIds : api_rss_actor_delete(a)
    \/ \E t \in Tids : fetch_rss_enter(t)
    \/ \E t \in Tids : fetch_rss_get(t)

SpecDelete == InitDelete /\ [][NextDelete]_vars

\* feed refresh batches started one after another, with status reads
InitRerun ==
    /\ InitThreads
    /\ actors = [a \in ActorIds |-> [present |-> TRUE, javbus_id |-> a, last_updated |-> 0]]
    /\ rss_items = {}
    /\ rss_seq = 0
    /\ movies = JobCatalog
    /\ movies_seq = MaxId(movies)
    /\ env = [threads |-> MaxThreads, faults |-> 0, docs |-> JobDocs,
              starts |-> MaxThreads, singles |-> 0, watches |-> 0,
              library |-> {}, dbfaults |-> 0, reads |-> MaxRuns, calls |-> 0]

NextRerun ==
    \/ api_rss_refresh
    \/ api_rss_status
    \/ \E t \in Tids : RssWorker(t)

SpecRerun == InitRerun /\ [][NextRerun]_vars

\* ------------------------------------- the operations that poll or fetch
\* one request of the service surface against an endpoint that may fail
InitSurface ==
    /\ InitThreads
    /\ actors = [a \in ActorIds |-> [present |-> TRUE, javbus_id |-> a, last_updated |-> 0]]
    /\ rss_items = {}
    /\ rss_seq = 0
    /\ movies = JobCatalog
    /\ movies_seq = MaxId(movies)
    /\ env = [threads |-> MaxRuns, faults |-> MaxJobFaults, docs |-> JobDocs,
              starts |-> MaxRuns, singles |-> 0, watches |-> 0,
              library |-> {}, dbfaults |-> 0, reads |-> 0, calls |-> 0]

NextSurface ==
    \/ api_rss_refresh
    \/ api_fetch_javdb_scores
    \/ api_rss_refresh_sync
    \/ \E a \in ActorIds : api_rss_refresh_actor(a)
    \/ \E n \in ActorNames : api_actor_fetch_javdb_scores(n)
    \/ \E t \in Tids : RssWorker(t) \/ JavdbWorker(t)
    \/ \E t \in Tids : rss_sync_select(t)
    \/ \E t \in Tids : rss_sync_record(t)
    \/ \E t \in Tids : actor_fetch_one(t)
    \/ \E t \in Tids : actor_fetch_return(t)

SpecSurface == InitSurface /\ [][NextSurface]_vars

\* ------------------------------------------ status reads during a batch
\* one batch of either kind, read while it runs
InitStatus ==
    /\ InitThreads
    /\ actors = [a \in ActorIds |-> [present |-> TRUE, javbus_id |-> a, last_updated |-> 0]]
    /\ rss_items = {}
    /\ rss_seq = 0
    /\ movies = JobCatalog
    /\ movies_seq = MaxId(movies)
    /\ env = [threads |-> MaxRuns, faults |-> MaxJobFaults, docs |-> JobDocs,
              starts |-> MaxStarts, singles |-> 0, watches |-> 0,
              library |-> {}, dbfaults |-> 0, reads |-> MaxReads, calls |-> 0]

NextStatus ==
    \/ api_rss_refresh
    \/ api_fetch_javdb_scores
    \/ api_rss_status
    \/ api_javdb_task_status
    \/ \E t \in Tids : RssWorker(t) \/ JavdbWorker(t)

SpecStatus == InitStatus /\ [][NextStatus]_vars

\* C1: for each job kind at most one batch worker is executing at any time.
C1_OneWorkerPerKind ==
    \A k \in {"rss_batch", "javdb_batch"} :
        Cardinality({ t \in Tids : task[t] = k /\ Executing(t) }) <= 1

\* C2: a start request handled while the job's is_running flag is set answers
\* "already running", starts no thread and leaves both job trackers and every
\* thread as they were.
C2_RejectWhileRunning ==
    [][ env'.starts < env.starts =>
          /\ (reply'.op = "api_rss_refresh" /\ rss_update_state.is_running) =>
                 /\ reply'.is_running /\ ~reply'.started
                 /\ nthreads' = nthreads /\ pc' = pc /\ task' = task
                 /\ rss_update_state' = rss_update_state
                 /\ javdb_task_state' = javdb_task_state
          /\ (reply'.op = "api_fetch_javdb_scores" /\ javdb_task_state.is_running) =>
                 /\ reply'.is_running /\ ~reply'.started
                 /\ nthreads' = nthreads /\ pc' = pc /\ task' = task
                 /\ rss_update_state' = rss_update_state
                 /\ javdb_task_state' = javdb_task_state ]_vars

C2_Witness ==
    /\ reply.op = "api_rss_refresh"
    /\ reply.is_running
    /\ rss_update_state.is_running
    /\ rss_update_state.results # <<>>
    /\ nthreads = 1

\* C3: when a batch worker has set its job complete, the job's result log is
\* the list of entries that this worker appended, in order, and nothing else.
C3_LogOfOneRun ==
    \A t \in Tids :
        /\ (task[t] = "rss_batch" /\ pc[t] = "bw_fin_end") =>
               rss_update_state.results = bl[t].mine
        /\ (task[t] = "javdb_batch" /\ pc[t] = "jw_fin_end") =>
               javdb_task_state.results = bl[t].mine


\* C13: every batch run that has set its job running eventually sets it
\* complete and not running, under fair scheduling of the worker.
C13_RunsComplete ==
    /\ rss_update_state.is_running ~>
          (rss_update_state.is_complete /\ ~rss_update_state.is_running)
    /\ javdb_task_state.is_running ~>
          (javdb_task_state.is_complete /\ ~javdb_task_state.is_running)


\* the entries of a log that report success
Successes(log) == { i \in 1..Len(log) : log[i].success }

\* C14: the step in which a feed-refresh batch writes its summary leaves a
\* result log with exactly one outcome for each performer the batch selected,
\* in order, and a summary with total = success + fail = that number, its
\* success count being the number of successful outcomes in the log.
C14_OneOutcomeEach ==
    [][ \A t \in Tids :
          (task[t] = "rss_batch" /\ pc[t] = "bw_fin_summary" /\ pc'[t] = "done") =>
              LET log == rss_update_state'.results
                  sm == rss_update_state'.summary
                  n == Len(bl[t].items)
              IN  /\ Len(log) = n
                  /\ \A i \in 1..n : i <= Len(log) => log[i].actor_id = bl[t].items[i]
                  /\ sm.total = n
                  /\ sm.success + sm.fail = n
                  /\ sm.success = Cardinality(Successes(log)) ]_vars


StatusOps == {"api_rss_status", "api_javdb_task_status"}

\* C15: a status read that reports a running batch carries a summary, and the
\* summary's success and fail counts are the numbers of successful and failed
\* outcomes in the result log it returns.
C15_LiveSummary ==
    (reply.op \in StatusOps /\ reply.is_running) =>
        /\ reply.summary.present
        /\ reply.summary.success = Cardinality(Successes(reply.results))
        /\ reply.summary.fail = Len(reply.results) - Cardinality(Successes(reply.results))

\* the execution has slept: a retry backoff inside fetch_rss or a delay
\* between two items of a batch
Slept(t) ==
    \/ bl[t].delays > 0
    \/ \E i \in 1..Len(reqs[t]) : reqs[t][i].delay > 0

\* the operations that run their polling or fetching inside the request
InlineTasks == {"rss_sync", "poll_one", "javdb_actor"}

\* C16 as stated: no execution on a request-handling path sleeps.
C16_NoSleepInRequest ==
    \A t \in Tids : caller[t] = "request" => ~Slept(t)

\* C16 amended: an execution on a request-handling path that sleeps belongs to
\* one of the three synchronous operations (refresh/sync, refresh/<actor_id>,
\* actor/<name>/fetch_javdb_scores); the work started by /api/rss/refresh and
\* /api/fetch_javdb_scores runs and sleeps on a worker thread.
C16_OnlyInlineOperationsSleep ==
    \A t \in Tids :
        /\ (caller[t] = "request" /\ Slept(t)) => task[t] \in InlineTasks
        /\ task[t] \in {"rss_batch", "javdb_batch"} => caller[t] = "thread"

\* a background batch has slept on its worker thread
C16_Witness ==
    \E t \in Tids :
        /\ task[t] \in {"rss_batch", "javdb_batch"}
        /\ caller[t] = "thread"
        /\ Slept(t)

\* ------------------------------------------- claims about the score engine
SameArguments(c1, c2) ==
    /\ c1.code = c2.code
    /\ c1.actors_str = c2.actors_str
    /\ c1.javdb_score = c2.javdb_score
    /\ c1.snapshot = c2.snapshot

\* C17 as stated: two calls with the same code, performer names and rating
\* against the same ranking snapshot return the same integer.
C17_SameArgumentsSameScore ==
    \A i, j \in 1..Len(calls) :
        SameArguments(calls[i], calls[j]) => calls[i].result = calls[j].result

\* C17 amended: two calls with the same code, performer names and rating
\* against the same ranking snapshot return the same integer when the store
\* gives the same credited performers a feed identifier at both calls and,
\* if the rating passed is absent, holds the same rating for the code.
C17_SameScoreOverSameStoreView ==
    \A i, j \in 1..Len(calls) :
        ( /\ SameArguments(calls[i], calls[j])
          /\ calls[i].linked = calls[j].linked
          /\ calls[i].javdb_score = 0 => calls[i].stored = calls[j].stored )
        => calls[i].result = calls[j].result

\* two calls with a rating passed got the same score although the store's
\* rating for the code changed in between
C17_Witness ==
    \E i, j \in 1..Len(calls) :
        /\ i < j
        /\ SameArguments(calls[i], calls[j])
        /\ calls[i].javdb_score # 0
        /\ calls[i].linked = calls[j].linked
        /\ calls[i].stored # calls[j].stored
        /\ calls[i].result = calls[j].result

\* the source of a label opened and one of its rows carries the code
OnList(snapshot, label, code) ==
    /\ snapshot[label].opens
    /\ \E i \in 1..Len(snapshot[label].rows) :
           /\ snapshot[label].rows[i].name # NoField
           /\ extract_code(snapshot[label].rows[i].name) = code

\* the rating a call evaluates: the one passed or, failing that, the stored one
EvaluatedRating(c) == IF c.javdb_score # 0 THEN c.javdb_score ELSE c.stored

TierAdjustment(c) ==
    LET r == EvaluatedRating(c)
    IN  CASE r = 0 -> 0
          [] r >= 45 -> 20
          [] r \in 42..44 -> 10
          [] r \in 39..41 -> 0
          [] r \in 35..38 -> -15
          [] OTHER -> -25

MembershipAdjustment(c) ==
    LET n == Cardinality({ l \in {"JavDB TOP250", "JavLibray TOP500"} :
                               OnList(c.snapshot, l, c.code) })
    IN  CASE n = 2 -> 30 [] n = 1 -> 20 [] OTHER -> 0

AnnualAdjustment(c) ==
    IF \E i \in 1..Len(AnnualLabels) : OnList(c.snapshot, AnnualLabels[i], c.code)
    THEN 10 ELSE 0

Credited(c) == { i \in 1..Len(c.actors_str) : strip(c.actors_str[i]) # "" }

MultiAdjustment(c) == IF Cardinality(Credited(c)) >= 2 THEN 5 ELSE 0

FeedAdjustment(c) == IF c.linked # {} THEN 15 ELSE 0

RatingPart(c) ==
    c.result - 50 - MembershipAdjustment(c) - AnnualAdjustment(c)
             - MultiAdjustment(c) - FeedAdjustment(c)

MultiPart(c) ==
    c.result - 50 - TierAdjustment(c) - MembershipAdjustment(c)
             - AnnualAdjustment(c) - FeedAdjustment(c)

AnnualPart(c) ==
    c.result - 50 - TierAdjustment(c) - MembershipAdjustment(c)
             - MultiAdjustment(c) - FeedAdjustment(c)

\* the tier of a rating in tenths, 0 when there is none
TierOf(r) ==
    CASE r = 0 -> 0
      [] r >= 45 -> 20
      [] r \in 42..44 -> 10
      [] r \in 39..41 -> 0
      [] r \in 35..38 -> -15
      [] OTHER -> -25

\* C26 as stated: a call with an absent rating contains no rating adjustment,
\* whatever rating the store holds for the code.
C26_AbsentRatingNoAdjustment ==
    \A i \in 1..Len(calls) : calls[i].javdb_score = 0 => RatingPart(calls[i]) = 0

\* C26 amended: a call with a rating passed contains the tier of that rating; a
\* call with an absent rating contains the tier of the rating the store holds
\* for the code, and no rating adjustment when the store holds none.
C26_AbsentRatingUsesStore ==
    \A i \in 1..Len(calls) :
        /\ calls[i].javdb_score # 0 => RatingPart(calls[i]) = TierOf(calls[i].javdb_score)
        /\ calls[i].javdb_score = 0 => RatingPart(calls[i]) = TierOf(calls[i].stored)

\* a call without a rating for the title stored with 3.6 is lowered by 15
C26_Witness ==
    \E i \in 1..Len(calls) :
        /\ calls[i].javdb_score = 0
        /\ calls[i].code = B2
        /\ calls[i].stored = 36
        /\ RatingPart(calls[i]) = -15

\* the distinct names credited
DistinctCredited(c) == { strip(c.actors_str[i]) : i \in Credited(c) }

\* C27: the bonus of 5 for several performers is in the result exactly when
\* the credited names contain 2 or more distinct names.
C27_BonusForDistinctNames ==
    \A i \in 1..Len(calls) :
        MultiPart(calls[i]) =
            IF Cardinality(DistinctCredited(calls[i])) >= 2 THEN 5 ELSE 0

\* the annual lists of the snapshot that carry the call's code
AnnualListsWith(c) ==
    { k \in 1..Len(AnnualLabels) : OnList(c.snapshot, AnnualLabels[k], c.code) }

\* C28: the annual part of every result is 10 when at least one annual list
\* carries the code and 0 otherwise; it is decided by the set of lists that
\* carry the code, so neither their number nor their order changes it.
C28_AnnualOnceAtMost ==
    \A i \in 1..Len(calls) :
        AnnualPart(calls[i]) = IF AnnualListsWith(calls[i]) # {} THEN 10 ELSE 0

\* a code on the first and the last annual list got 10, and a code on the
\* middle list alone got 10
C28_Witness ==
    \E i \in 1..Len(calls) :
        \/ AnnualListsWith(calls[i]) = {1, 3} /\ AnnualPart(calls[i]) = 10
        \/ AnnualListsWith(calls[i]) = {2} /\ AnnualPart(calls[i]) = 10

\* C38: every result of calculate_movie_score is an integer from 25 to 130.
C38_ScoreRange ==
    \A i \in 1..Len(calls) : calls[i].result \in 25..130

\* a call reached the upper end: both lists, an annual list, rating 4.6, two
\* performers, one of them feed-linked
C38_Witness ==
    \E i \in 1..Len(calls) :
        /\ calls[i].result = 130
        /\ calls[i].linked # {}
        /\ calls[i].javdb_score = 46

\* ------------------------------------------- claims about pure functions
\* one or more letters of A-Z, a dash, one or more digits of 0-9
IsCode(p) ==
    \E u \in 1..(Len(p) - 2) :
        /\ \A i \in 1..u : p[i] \in Upper
        /\ p[u + 1] = "-"
        /\ \A i \in (u + 2)..Len(p) : p[i] \in AsciiDigit

CodePrefixes(title) == { n \in 1..Len(title) : IsCode(SubSeq(title, 1, n)) }

LeadingCode(title) ==
    IF CodePrefixes(title) = {} THEN NoCode
    ELSE SubSeq(title, 1, Max(CodePrefixes(title)))

\* C19: the code extracted from a title is its longest prefix made of one or
\* more letters A-Z, a dash and one or more digits 0-9, and absent when the
\* title has no such prefix.
C19_LeadingAsciiCode ==
    \A i \in 1..Len(calls) : calls[i].result = LeadingCode(calls[i].title)

\* the rows of a source that carry the code
RowsOf(file, code) ==
    { i \in 1..Len(file.rows) :
        file.rows[i].name # NoField /\ extract_code(file.rows[i].name) = code }

\* the ranks the rows of a source state for a code; a row with an empty or
\* non-numeric rank field states 0, a short row states none
RanksOf(file, code) ==
    { rank_of(file.rows[j].number) :
        j \in { k \in RowsOf(file, code) : file.rows[k].number # NoField } }

\* C20: for every source and every code loaded from it, the loaded rank is the
\* minimum of the ranks of all rows of the source that carry the code,
\* whatever the order of the rows.
C20_MinimumRank ==
    \A i \in 1..Len(calls) :
        \A l \in Labels :
            LET file == calls[i].files[l]
                loaded == calls[i].result[l]
            IN  \A code \in DOMAIN loaded :
                    /\ loaded[code] \in RanksOf(file, code)
                    /\ \A r \in RanksOf(file, code) : loaded[code] <= r

\* the source cannot be opened, or one of its rows makes the parsing raise
SourceFails(file) ==
    \/ ~file.opens
    \/ \E k \in 1..Len(file.rows) : row_raises(file.rows[k])

\* C21: a source that fails to open or fails while being parsed, also partway
\* through its rows, is loaded as the empty mapping.
C21_FailedSourceIsEmpty ==
    \A i \in 1..Len(calls) :
        \A l \in Labels :
            SourceFails(calls[i].files[l]) => calls[i].result[l] = EmptyMapping

\* ----------------------------------------------- claims about the scraper
ScraperCalls == { i \in 1..Len(calls) : calls[i].op = "get_javdb_score" }

\* C22: get_javdb_score never raises to its caller: whatever the statuses, the
\* exceptions of session.get and the pages, no call ends raising and every
\* finished call returned a rating or not-found.
C22_NeverRaises ==
    /\ \A t \in Tids : pc[t] # "raised"
    /\ \A i \in ScraperCalls : calls[i].result = NoMatch \/ calls[i].result > 0

\* a call met an exception on its last try of the search page and returned
\* not-found
C22_Witness ==
    \E i \in ScraperCalls :
        /\ Len(calls[i].requests) = MAX_RETRIES
        /\ \A k \in 1..MAX_RETRIES : calls[i].requests[k].kind = "exception"
        /\ calls[i].result = NoMatch

\* the requests a call made for one page, in order
RequestsFor(c, page) == SelectSeq(c.requests, LAMBDA q : q.page = page)

AllForbidden(rs) == Len(rs) > 0 /\ \A k \in 1..Len(rs) : rs[k].status = 403

\* C23: when every request for a page is answered 403, the call makes exactly
\* MAX_RETRIES requests for it, waits 5 * k after the k-th for k < MAX_RETRIES,
\* and returns not-found with that page's last request as its last request.
C23_ForbiddenRetries ==
    \A i \in ScraperCalls :
        \A page \in {"search", "detail"} :
            LET rs == RequestsFor(calls[i], page)
            IN  AllForbidden(rs) =>
                    /\ Len(rs) = MAX_RETRIES
                    /\ \A k \in 1..Len(rs) :
                           rs[k].wait = IF k < MAX_RETRIES THEN 5 * k ELSE 0
                    /\ calls[i].result = NoMatch
                    /\ calls[i].requests[Len(calls[i].requests)].page = page

\* a call whose detail page was answered 403 three times
C23_Witness ==
    \E i \in ScraperCalls :
        /\ AllForbidden(RequestsFor(calls[i], "detail"))
        /\ calls[i].result = NoMatch

\* the value of the first pattern, in the fixed order, that matches the page
FirstMatch(html) ==
    CASE html.p1 # NoMatch -> html.p1
      [] html.p2 # NoMatch -> html.p2
      [] html.p3 # NoMatch -> html.p3
      [] OTHER -> html.p4

\* C25: a detail page that was received decides the call: the call returns
\* the value of the first pattern that matches it, and not-found only when no
\* pattern matches.
C25_FirstPatternDecides ==
    \A i \in ScraperCalls :
        LET rs == calls[i].requests
        IN  \A k \in 1..Len(rs) :
                (rs[k].page = "detail" /\ rs[k].status = 200) =>
                    /\ k = Len(rs)
                    /\ calls[i].result = FirstMatch(rs[k].html)

\* C24: in a rating backfill run, a title the scraper found no rating for is
\* recorded as an outcome that carries no error and is not counted as a
\* failure: the run's fail count is the number of its outcomes that are
\* failures, and a not-found outcome is none.
NotFoundOutcomes(rs) == { k \in 1..Len(rs) : ~rs[k].success /\ rs[k].score = 0 }

C24_NotFoundIsNotAFailure ==
    \A t \in Tids :
        task[t] = "javdb_batch" =>
            /\ \A k \in NotFoundOutcomes(bl[t].mine) : bl[t].mine[k].error = ""
            /\ bl[t].fail_count =
                   Len(bl[t].mine) - Cardinality(Successes(bl[t].mine))
                                   - Cardinality(NotFoundOutcomes(bl[t].mine))

\* C29: the retry count a batch records for a performer is the number of
\* retries fetch_rss made for that performer, whatever the outcome.
C29_RetryCountRecorded ==
    [][\A t \in Tids :
          (task[t] = "rss_batch" /\ pc[t] = "bw_record" /\ pc'[t] # "bw_record") =>
              LET log == rss_update_state'.results
              IN  /\ Len(log) > 0
                  /\ log[Len(log)].retry_count = hist[t].retries]_vars

\* C30: the items-added count a successful fetch_rss returns is the number of
\* rss_items rows that call created; an entry whose (performer, code) pair was
\* stored already is not counted.
C30_ItemsAddedCountsNewRows ==
    [][\A t \in Tids :
          (pc[t] = "fr_get" /\ pc'[t] # "fr_get" /\ ret'[t].success) =>
              ret'[t].items_added = Cardinality(rss_items' \ rss_items)]_vars

\* the polls a feed refresh batch has started so far
PollsStarted(t) ==
    IF pc[t] \in {"fr_enter", "fr_get", "bw_record"}
       \/ (pc[t] = "crashed" /\ bl[t].items # <<>>)
    THEN bl[t].idx + 1
    ELSE bl[t].idx

\* C31: a feed refresh batch has slept once before every poll it started
\* except the first, and not after the last: with n performers selected it
\* ends its loop after exactly n - 1 delays (none when n = 0).
C31_DelaysBetweenPolls ==
    \A t \in Tids :
        task[t] = "rss_batch" =>
            /\ bl[t].delays = Max({PollsStarted(t) - 1, 0})
            /\ pc[t] \in {"bw_fin_running", "bw_fin_complete", "bw_fin_end", "bw_fin_summary"}
                   => bl[t].delays = Max({bl[t].total - 1, 0})

\* a batch over two performers ended its loop after one delay
C31_Witness ==
    \E t \in Tids :
        /\ task[t] = "rss_batch"
        /\ pc[t] = "bw_fin_summary"
        /\ bl[t].total = 2
        /\ bl[t].idx = 2
        /\ bl[t].delays = 1

\* C33: a status read never reports a feed refresh job as running and complete
\* at once, also when a run is started after an earlier run completed.
C33_OneStatePerRead ==
    reply.op \in StatusOps => ~(reply.is_running /\ reply.is_complete)

\* the catalog holds the code under the performer's name
InCatalogUnder(code, a) ==
    \E m \in movies : m.code = code /\ InSeq(ActorName(a), m.actors)

\* C32: every rss_items row a poll creates has is_watched true exactly when
\* the catalog, at that poll, holds a title with the row's code whose
\* performers include the polled performer's name.
C32_WatchedIffInCatalog ==
    [][\A r \in rss_items' \ rss_items :
           r.is_watched = InCatalogUnder(r.code, r.actor_id)]_vars

\* a poll stored an entry as watched for a title the catalog holds under the
\* performer
C32_Witness ==
    \E r \in rss_items : r.is_watched /\ InCatalogUnder(r.code, r.actor_id)

\* C34: every rss_items row refers to a performer the actors table holds.
C34_ItemsHavePerformers ==
    \A r \in rss_items : actors[r.actor_id].present

\* C35: when a rating backfill has ended its loop, every rating it recorded
\* as a success is the stored rating of the title with that code.
C35_RecordedRatingsAreStored ==
    \A t \in Tids :
        (task[t] = "javdb_batch"
         /\ pc[t] \in {"jw_fin_running", "jw_fin_complete", "jw_fin_end", "jw_fin_summary"}) =>
            \A k \in Successes(bl[t].mine) :
                \E m \in movies : /\ m.code = bl[t].mine[k].code
                                  /\ m.javdb_score = bl[t].mine[k].score

\* C36: a status read that reports a completed job carries the summary of the
\* run that completed: the summary is present and its total is the number of
\* items in that run's log.
C36_CompleteHasItsSummary ==
    (reply.op \in StatusOps /\ reply.is_complete) =>
        /\ reply.summary.present
        /\ reply.summary.total = Len(reply.results)

\* the step is the store of a successful poll of performer a
SuccessfulPollOf(a) ==
    \E t \in Tids :
        /\ pc[t] = "fr_get"
        /\ fr[t].actor_id = a
        /\ pc'[t] # "fr_get"
        /\ ret'[t].success

\* the step is an update of a performer's feed identifier
ConfigurationUpdate == env'.watches = env.watches - 1

\* C37: a step in which fetch_rss returns a failure changes neither rss_items
\* nor a last_updated; rows are created only by the store of a successful
\* poll, for the polled performer, and a performer's last_updated changes only
\* in the store of a successful poll of that performer or in an update of a
\* feed identifier.
C37_FailureChangesNothing ==
    [][ /\ \A t \in Tids :
             (pc[t] \in {"fr_enter", "fr_get"} /\ pc'[t] \notin {"fr_enter", "fr_get"}
              /\ ~ret'[t].success) =>
                 /\ rss_items' = rss_items
                 /\ actors' = actors
        /\ \A r \in rss_items' \ rss_items : SuccessfulPollOf(r.actor_id)
        /\ \A a \in ActorIds :
             actors'[a].last_updated # actors[a].last_updated =>
                 SuccessfulPollOf(a) \/ ConfigurationUpdate ]_vars

\* a poll returned a failure after retries were used up, and nothing is stored
\* and the performer's last_updated is as it was
C37_Witness ==
    \E t \in Tids :
        /\ task[t] = "poll_one"
        /\ pc[t] = "done"
        /\ ~ret[t].success
        /\ hist[t].n > RSS_MAX_RETRIES
        /\ rss_items = {}
        /\ actors[fr[t].actor_id].last_updated = 0

\* ------------------------------------------------- claims about the catalog
UniqueCodes(rows) == \A r1, r2 \in rows : r1.code = r2.code => r1 = r2
SyncedCodes(items) == { extract_code(items[i].Name) : i \in 1..Len(items) } \ {NoCode}
\* the last item of a list that yields the code
LastWith(items, code) ==
    items[Max({ i \in 1..Len(items) : extract_code(items[i].Name) = code })]

\* C11: the store holds one movies row per code at all times, and the commit of
\* a catalog sync leaves, for every code it synced, exactly one row, which
\* carries the item's title, year, performers, added date and external id and
\* the score and rating that the row of that code had before the commit.
C11_UpsertKeepsScore ==
    [][ /\ UniqueCodes(movies')
        /\ \A t \in Tids :
             (pc[t] = "sj_commit" /\ pc'[t] = "done") =>
                \A c \in SyncedCodes(sj[t].items) :
                   /\ Cardinality({ r \in movies' : r.code = c }) = 1
                   /\ LET new == CHOOSE r \in movies' : r.code = c
                          it == LastWith(sj[t].items, c)
                      IN  /\ new.title = it.Name
                          /\ new.year = it.ProductionYear
                          /\ new.actors = actors_of(it)
                          /\ new.date_added = date_added_of(it)
                          /\ new.jellyfin_id = it.Id
                          /\ \A old \in movies :
                                old.code = c => /\ new.score = old.score
                                                /\ new.javdb_score = old.javdb_score ]_vars

\* a sync has returned its count, and the title that was stored with a computed
\* score and a rating has the item's external id and still that score and rating
C11_Witness ==
    \E t \in Tids :
        /\ pc[t] = "done"
        /\ sj[t].result >= 1
        /\ \E r \in movies :
              /\ r.code = <<"A", "-", "1">>
              /\ r.score = 85
              /\ r.javdb_score = 46
              /\ r.jellyfin_id \in {"j1", "j2"}
              /\ r.id > 1

\* C12: when a catalog sync fails after it has upserted rows, the rows it
\* upserted before the failure are in the store.
C12_PartialWritesRemain ==
    [][ \A t \in Tids :
          (pc[t] = "sj_item" /\ pc'[t] = "done" /\ sj'[t].result = -1 /\ sj[t].count > 0) =>
              \A r \in sj[t].rows : r.id > movies_seq => r \in movies' ]_vars


\* ------------------------------------------------ claims about the feed store
\* C9: the store holds at most one rss_items row for each (actor_id, code).
C9_UniquePair ==
    \A r1, r2 \in rss_items :
        (r1.actor_id = r2.actor_id /\ r1.code = r2.code) => r1 = r2

\* two polls of one performer met the same entry and one row is stored for it
C9_Witness ==
    \E t1, t2 \in Tids :
        /\ t1 # t2
        /\ ret[t1].success /\ ret[t2].success
        /\ \E r \in hist[t2].ignored :
              /\ r.detected_at = t1
              /\ r \in rss_items
              /\ Cardinality({ q \in rss_items : q.actor_id = r.actor_id /\ q.code = r.code }) = 1

\* C10: the step in which a poll stores a feed document leaves every row that
\* was stored before it exactly as it was, whatever the document holds.
C10_StoredRowsKept ==
    [][ (\E t \in Tids : hist'[t].n = hist[t].n + 1) =>
            \A r \in rss_items : r \in rss_items' ]_vars

\* a poll met a row whose watched flag the user had changed, and the row is
\* still stored as the poll found it, first detection time included
C10_Witness ==
    \E t \in Tids :
        \E r \in hist[t].ignored :
            /\ ret[t].success
            /\ r.detected_at # t
            /\ r.is_watched # (r.code \in existing_codes(ActorName(r.actor_id)))
            /\ r \in rss_items

\* ------------------------------------------------- claims about fetch_rss
NumDomains == Len(JAVBUS_DOMAINS)
LastReq(t) == reqs[t][Len(reqs[t])]
Returned(t) == pc[t] = ReturnPc(t)
InCall(t) == pc[t] \in {"fr_enter", "fr_get"}

\* the most requests a call makes when every retry stays on its domain:
\* RSS_MAX_RETRIES + 1 requests for each configured domain
FetchCeiling == (RSS_MAX_RETRIES + 1) * NumDomains

\* C4: one pollOne call issues a bounded number of requests, whatever the
\* endpoint answers: never more than RSS_MAX_RETRIES + 1 for each domain.
C4_BoundedRequests ==
    \A t \in Tids : hist[t].n <= FetchCeiling

\* the delays the configuration documents: 5, 10, 20 seconds
ExpectedDelays == <<5, 10, 20>>

\* C5: when every request of a call is answered 429, request k (k = 0, 1, ...)
\* carries attempt counter k, the sleep after request k < RSS_MAX_RETRIES is
\* base * 2^k, and the call returns the retry-exhausted failure at the request
\* with counter RSS_MAX_RETRIES, after RSS_MAX_RETRIES retries and not before.
C5_BackoffSchedule ==
    \A t \in Tids :
        (hist[t].only429 /\ hist[t].n > 0) =>
            LET last == LastReq(t)
            IN  /\ last.retry = hist[t].n - 1
                /\ last.retry <= RSS_MAX_RETRIES
                /\ last.retry < RSS_MAX_RETRIES =>
                       /\ last.delay = ExpectedDelays[last.retry + 1]
                       /\ InCall(t)
                       /\ fr[t].retry_count = last.retry + 1
                /\ last.retry = RSS_MAX_RETRIES =>
                       /\ last.delay = 0
                       /\ Returned(t)
                       /\ ~ret[t].success
                       /\ ret[t].error = "max retries exceeded"
                       /\ ret[t].retry_count = RSS_MAX_RETRIES

C5_Witness ==
    \E t \in Tids :
        /\ hist[t].only429
        /\ hist[t].n = RSS_MAX_RETRIES + 1
        /\ Returned(t)
        /\ ret[t].error = "max retries exceeded"

\* C6: a timeout on a domain that is not the last one is followed at once
\* (no sleep) by a request to the next domain with the attempt counter at 0.
C6_DomainRotation ==
    \A t \in Tids :
        /\ (hist[t].n > 0 /\ LastReq(t).kind = "timeout" /\ LastReq(t).dom < NumDomains - 1) =>
               /\ LastReq(t).delay = 0
               /\ InCall(t)
               /\ fr[t].domain_index = LastReq(t).dom + 1
               /\ fr[t].retry_count = 0
        /\ (Len(reqs[t]) = 2 /\ reqs[t][1].kind = "timeout" /\ reqs[t][1].dom < NumDomains - 1) =>
               /\ reqs[t][2].dom = reqs[t][1].dom + 1
               /\ reqs[t][2].retry = 0

C6_Witness ==
    \E t \in Tids :
        /\ Len(reqs[t]) = 2
        /\ reqs[t][1].kind = "timeout"
        /\ reqs[t][1].retry > 0
        /\ reqs[t][1].dom = 0
        /\ reqs[t][2].dom = 1
        /\ reqs[t][2].retry = 0

\* C7: a retryable status with retry budget left is followed by a request to
\* the same domain with the attempt counter one higher.
C7_RetrySameDomain ==
    \A t \in Tids :
        (/\ Len(reqs[t]) = 2
         /\ reqs[t][1].kind = "http"
         /\ reqs[t][1].status \in retryable_errors
         /\ reqs[t][1].retry < RSS_MAX_RETRIES) =>
            /\ reqs[t][2].dom = reqs[t][1].dom
            /\ reqs[t][2].retry = reqs[t][1].retry + 1

\* C8: when every request of a call times out, request number n goes to
\* domain min(n, last) in list order, the backoff retries all go to the last
\* domain, no request goes back to an earlier domain, and the call returns a
\* failure after NumDomains + RSS_MAX_RETRIES requests.
C8_AllTimeouts ==
    \A t \in Tids :
        (hist[t].onlyTimeout /\ hist[t].n > 0) =>
            LET last == LastReq(t)
                n == hist[t].n
            IN  /\ last.dom = (IF n <= NumDomains THEN n - 1 ELSE NumDomains - 1)
                /\ last.retry = (IF n <= NumDomains THEN 0 ELSE n - NumDomains)
                /\ n <= NumDomains + RSS_MAX_RETRIES
                /\ Len(reqs[t]) = 2 => reqs[t][2].dom >= reqs[t][1].dom
                /\ n < NumDomains => last.delay = 0
                /\ (n >= NumDomains /\ n < NumDomains + RSS_MAX_RETRIES) =>
                       last.delay = ExpectedDelays[last.retry + 1]
                /\ Returned(t) <=> n = NumDomains + RSS_MAX_RETRIES
                /\ Returned(t) => (~ret[t].success /\ ret[t].error = "Network error")

C8_Witness ==
    \E t \in Tids :
        /\ hist[t].onlyTimeout
        /\ hist[t].n = NumDomains + RSS_MAX_RETRIES
        /\ Returned(t)
        /\ ~ret[t].success

====
